---- MODULE Spec2Model ----
(***************************************************************************)
(* eonasm: the classical assembler for the eon cpu (src/eonasm.c).         *)
(*                                                                         *)
(* The module models the pass driver (main), the line processor            *)
(* (assemble), the expression evaluator (expr), the symbol table           *)
(* (find_label, add_label), the template matcher and encoder (tmatch,      *)
(* match, the switch of assemble) and the Intel HEX emitter (emit,         *)
(* emit_flush, emit_done).                                                 *)
(*                                                                         *)
(* Representation.                                                         *)
(*  - A character is a one-character string; NUL is the line terminator    *)
(*    that readline writes.  Text is a sequence of characters, indexed     *)
(*    from 1; the C pointer p is an index and NULL is the index 0.         *)
(*  - A 32-bit quantity (uint32_t, unsigned, int) is held as the integer   *)
(*    in -2^31 .. 2^31-1 that has the same 32 bits (two's complement), so  *)
(*    that every value fits the model checker's integers; the operators    *)
(*    Add32, Sub32, Mul32, UDiv32, ... compute modulo 2^32 on that         *)
(*    representation, and ULt compares as unsigned.                        *)
(***************************************************************************)
EXTENDS Integers, Sequences, FiniteSets, TLC

(***************************************************************************)
(* Configuration (src/eonasm.c, "config")                                  *)
(***************************************************************************)
MAX_LINE == 128

MAX_ERRORS == 8

MAX_LABELS == 256

MAX_CHAR_LABEL == 22

OUTPUT_LINE_BYTES == 32

LABEL_USED == 1

LABEL_EQU == 2

(***************************************************************************)
(* Characters                                                              *)
(***************************************************************************)
NUL == "NUL"

NL == "\n"

\* the printable characters, codes 32 .. 126, in code order (code 96 by name)
Ascii ==
   << 
      " ", "!", "\"", "#", "$", "%", "&", "'", "(", ")", "*", "+",
      ",", "-", ".", "/", "0", "1", "2", "3", "4", "5", "6", "7",
      "8", "9", ":", ";", "<", "=", ">", "?", "@", "A", "B", "C",
      "D", "E", "F", "G", "H", "I", "J", "K", "L", "M", "N", "O",
      "P", "Q", "R", "S", "T", "U", "V", "W", "X", "Y", "Z", "[",
      "\\", "]", "^", "_", "GRAVE", "a", "b", "c", "d", "e", "f", "g",
      "h", "i", "j", "k", "l", "m", "n", "o", "p", "q", "r", "s",
      "t", "u", "v", "w", "x", "y", "z", "{", "|", "}", "~"
   >>

\* the code of every character of the model
OrdTab ==
   [c \in {Ascii[i] : i \in 1..Len(Ascii)} \cup {NUL, NL} |->
      IF c = NUL THEN 0
      ELSE IF c = NL THEN 10
      ELSE 31 + (CHOOSE i \in 1..Len(Ascii) : Ascii[i] = c)]

Ord(c) == OrdTab[c]

Chr(n) == IF n = 0 THEN NUL ELSE IF n = 10 THEN NL ELSE Ascii[n - 31]

\* *p : the character at index p; the line ends with NUL
At(s, p) == IF p >= 1 /\ p <= Len(s) THEN s[p] ELSE NUL

isdigit(c) == Ord(c) - 48 >= 0 /\ Ord(c) - 48 < 10

islower(c) == Ord(c) - 97 >= 0 /\ Ord(c) - 97 < 26

\* ((unsigned) c | 32) - 'a' < 26 : the letters are the codes 65..90, 97..122
isalpha(c) ==
   LET o == Ord(c)
       l == IF (o \div 32) % 2 = 1 THEN o ELSE o + 32
   IN l - 97 >= 0 /\ l - 97 < 26

isalnum(c) == isalpha(c) \/ isdigit(c)

\* islower (c) ? c & 0x5f : c
toupper(c) == IF islower(c) THEN Chr(Ord(c) - 32) ELSE c

\* *p && *p <= ' '
isblank(c) == Ord(c) # 0 /\ Ord(c) <= 32

(***************************************************************************)
(* 32-bit arithmetic                                                       *)
(***************************************************************************)
MaxInt32 == (32768 * 32768 - 1) * 2 + 1

MinInt32 == -MaxInt32 - 1

\* C evaluates a statement before the next one begins: Op at the value of x
Then(x, Op(_)) == CHOOSE r \in { Op(y) : y \in {x} } : TRUE

\* unsigned comparison of two 32-bit quantities
ULt(a, b) ==
   IF (a >= 0) = (b >= 0) THEN a < b ELSE a >= 0

ULe(a, b) == a = b \/ ULt(a, b)

\* a + b modulo 2^32
Add32(a, b) ==
   IF a >= 0 /\ b >= 0 /\ a > MaxInt32 - b THEN (a + MinInt32) + (b + MinInt32)
   ELSE IF a < 0 /\ b < 0 /\ a < MinInt32 - b THEN (a - MinInt32) + (b - MinInt32)
   ELSE a + b

\* 0 - a modulo 2^32
Neg32(a) == IF a = MinInt32 THEN MinInt32 ELSE -a

Sub32(a, b) == Add32(a, Neg32(b))

\* the four bytes of a 32-bit quantity, least significant first
Bytes32(a) ==
   << a % 256, (a \div 256) % 256, (a \div 65536) % 256, (a \div 16777216) % 256 >>

\* the 32-bit quantity with the given bytes, least significant first
FromBytes32(b) ==
   (IF b[4] >= 128 THEN b[4] - 256 ELSE b[4]) * 16777216
      + b[3] * 65536 + b[2] * 256 + b[1]

\* a * b modulo 2^32 (schoolbook product of the bytes, with carries)
Mul32(a, b) ==
   LET x == Bytes32(a)
       y == Bytes32(b)
       c1 == x[1] * y[1]
       r1 == c1 % 256
       c2 == x[1] * y[2] + x[2] * y[1] + c1 \div 256
       r2 == c2 % 256
       c3 == x[1] * y[3] + x[2] * y[2] + x[3] * y[1] + c2 \div 256
       r3 == c3 % 256
       c4 == x[1] * y[4] + x[2] * y[3] + x[3] * y[2] + x[4] * y[1] + c3 \div 256
       r4 == c4 % 256
   IN FromBytes32(<< r1, r2, r3, r4 >>)

\* unsigned a / b for b # 0
UDiv32(a, b) ==
   IF b < 0 THEN (IF ULe(b, a) THEN 1 ELSE 0)
   ELSE IF a >= 0 THEN a \div b
   ELSE IF b = 1 THEN a
   ELSE LET h == (a \div 2) - MinInt32
            q0 == (h \div b) * 2
            r == Sub32(a, Mul32(q0, b))
        IN IF ULe(b, r) THEN q0 + 1 ELSE q0

\* unsigned a % b for b # 0
UMod32(a, b) == Sub32(a, Mul32(UDiv32(a, b), b))

RECURSIVE BitOp(_, _, _, _)
\* bitwise and ("&") or or ("|") of the low n bits of two non-negative integers
BitOp(op, x, y, n) ==
   IF n = 0 THEN 0
   ELSE LET bx == x % 2
            by == y % 2
            bit == IF op = "&" THEN bx * by ELSE (IF bx + by > 0 THEN 1 ELSE 0)
        IN bit + 2 * BitOp(op, x \div 2, y \div 2, n - 1)

And32(a, b) ==
   LET x == Bytes32(a)
       y == Bytes32(b)
   IN FromBytes32([i \in 1..4 |-> BitOp("&", x[i], y[i], 8)])

Or32(a, b) ==
   LET x == Bytes32(a)
       y == Bytes32(b)
   IN FromBytes32([i \in 1..4 |-> BitOp("|", x[i], y[i], 8)])

\* (uint8_t) x : the low byte
U8(x) == x % 256

\* (uint16_t) x : the low 16 bits
U16(x) == x % 65536

\* x >> n for the int x (arithmetic shift), n in {8, 16, 24}
Shr(x, n) ==
   x \div (IF n = 8 THEN 256 ELSE IF n = 16 THEN 65536 ELSE 16777216)

\* a / 2 for the int a: C division truncates toward zero
CDiv2(a) == IF a >= 0 \/ a % 2 = 0 THEN a \div 2 ELSE a \div 2 + 1

(***************************************************************************)
(* Symbol table (src/eonasm.c, "labels")                                   *)
(*                                                                         *)
(* tlabel is a static array, zero-initialised.  The model holds the slots  *)
(* that have been written as a function from their indexes; every other    *)
(* slot reads as ZeroLabel.  A label_t (a pointer into tlabel) is the      *)
(* index of the slot and NoLabel is the NULL pointer.  A table T is the    *)
(* record [tlabel, nlabel, lstack].                                        *)
(***************************************************************************)
NoLabel == -1

ZeroLabel ==
   [value |-> 0, lbegin |-> 0, lend |-> 0, flags |-> 0, len |-> 0, name |-> << >>]

\* tlabel[i]
Slot(tl, i) == IF i \in DOMAIN tl THEN tl[i] ELSE ZeroLabel

\* tlabel[i] = l
SetSlot(tl, i, l) == [j \in (DOMAIN tl) \cup {i} |-> IF j = i THEN l ELSE tl[j]]

HasFlag(l, f) == (l.flags \div f) % 2 = 1

\* the first n characters of a name
Prefix(id, n) == SubSeq(id, 1, IF n < Len(id) THEN n ELSE Len(id))

RECURSIVE find_from(_, _, _, _, _)
\* the for loop of find_label: the first slot in [i, end) with that length and name
find_from(tl, id, len, i, end) ==
   IF i >= end THEN NoLabel
   ELSE IF len = Slot(tl, i).len /\ Prefix(id, len) = Prefix(Slot(tl, i).name, len) THEN i
   ELSE find_from(tl, id, len, i + 1, end)

find_label(T, master, id) ==
   LET len == IF Len(id) > MAX_CHAR_LABEL THEN MAX_CHAR_LABEL ELSE Len(id)
       i == IF master # NoLabel THEN Slot(T.tlabel, master).lbegin ELSE 0
       end == IF master # NoLabel THEN Slot(T.tlabel, master).lend ELSE T.nlabel
   IN find_from(T.tlabel, id, len, i, end)

\* the check for space of add_label: the table is full (a fatal error)
labels_full(T) == T.nlabel >= T.lstack

\* sizeof (struct label_t): value in the bytes 0..3, lbegin in 4..5, lend in
\* 6..7, flags in 8, len in 9 and name in 10..31
LabelSize == 32

\* offsetof (struct label_t, name)
NameOffset == 10

\* a 16-bit field with its byte k (0 the lower) set to b
SetByte16(x, k, b) == IF k = 0 THEN (x \div 256) * 256 + b ELSE (x % 256) + 256 * b

\* a name of at least n bytes: the bytes of a slot never written hold 0
PadName(name, n) == name \o [i \in 1..(n - Len(name)) |-> NUL]

\* the label l with the character ch stored in its byte off.  The bytes of value,
\* lbegin and lend are taken least significant first, as the hosts of the
\* assembler have them
poke(l, off, ch) ==
   IF off < 4
   THEN [l EXCEPT !.value = FromBytes32([Bytes32(@) EXCEPT ![off + 1] = Ord(ch)])]
   ELSE IF off < 6 THEN [l EXCEPT !.lbegin = SetByte16(@, off - 4, Ord(ch))]
   ELSE IF off < 8 THEN [l EXCEPT !.lend = SetByte16(@, off - 6, Ord(ch))]
   ELSE IF off = 8 THEN [l EXCEPT !.flags = Ord(ch)]
   ELSE IF off = 9 THEN [l EXCEPT !.len = Ord(ch)]
   ELSE [l EXCEPT !.name = [PadName(@, off - 9) EXCEPT ![off - 9] = ch]]

\* byte j of id stored by memcpy (l->name, id, len) with l = &tlabel[slot]: the
\* bytes after name[21] fall into the slots that follow, those after the end of
\* tlabel are not in the table
memcpy_byte(tl, slot, id, j) ==
   IF slot + (NameOffset + j) \div LabelSize >= MAX_LABELS THEN tl
   ELSE SetSlot(tl, slot + (NameOffset + j) \div LabelSize,
                poke(Slot(tl, slot + (NameOffset + j) \div LabelSize),
                     (NameOffset + j) % LabelSize, id[j + 1]))

RECURSIVE memcpy_range(_, _, _, _, _)
\* the bytes lo .. hi - 1 of id stored in order, the two halves one after the other
memcpy_range(tl, slot, id, lo, hi) ==
   IF hi <= lo THEN tl
   ELSE IF hi = lo + 1 THEN memcpy_byte(tl, slot, id, lo)
   ELSE Then(memcpy_range(tl, slot, id, lo, (lo + hi) \div 2),
             LAMBDA t : memcpy_range(t, slot, id, (lo + hi) \div 2, hi))

\* memcpy (l->name, id, len) with l = &tlabel[slot]; wild tells that bytes were
\* written after the end of tlabel
memcpy_name(tl, slot, id) ==
   [tl |-> memcpy_range(tl, slot, id, 0, Len(id)),
    wild |-> Len(id) > 0 /\ slot + (NameOffset + Len(id) - 1) \div LabelSize >= MAX_LABELS]

\* add_label when there is space: the table after it, the new label, and whether
\* the copy of the name left the table
add_label(T, master, id, at) ==
   LET stk == IF master # NoLabel THEN T.lstack - 1 ELSE T.lstack
       slot == IF master # NoLabel THEN stk ELSE T.nlabel
       tl1 == IF master # NoLabel
              THEN SetSlot(T.tlabel, master, [Slot(T.tlabel, master) EXCEPT !.lbegin = stk])
              ELSE T.tlabel
       new == [Slot(tl1, slot) EXCEPT
                 !.value = at,
                 !.lbegin = IF master # NoLabel THEN @ ELSE stk,
                 !.lend = IF master # NoLabel THEN @ ELSE stk,
                 !.len = IF Len(id) > MAX_CHAR_LABEL THEN MAX_CHAR_LABEL ELSE Len(id)]
       cp == memcpy_name(SetSlot(tl1, slot, new), slot, id)
   IN [T |-> [tlabel |-> cp.tl,
              nlabel |-> IF master # NoLabel THEN T.nlabel ELSE T.nlabel + 1,
              lstack |-> stk],
       lbl |-> slot, wild |-> cp.wild]

(***************************************************************************)
(* Expression parser (src/eonasm.c, "expr parser")                         *)
(*                                                                         *)
(* expr calls error (), which may end the process; the model returns the   *)
(* messages in order, errs, and the caller records them.  The result is    *)
(* [p, v, errs, used, dz]: the vp_t, the messages, the slots whose         *)
(* LABEL_USED flag was set, and whether a division by zero was evaluated.  *)
(***************************************************************************)
\* the digit of a hex character, or -1
HexDigit(c) ==
   LET o == Ord(c)
   IN IF o >= 48 /\ o <= 57 THEN o - 48
      ELSE IF o >= 97 /\ o <= 102 THEN o - 97 + 10
      ELSE IF o >= 65 /\ o <= 70 THEN o - 65 + 10
      ELSE -1

RECURSIVE HexNum(_, _, _)
\* for (;; p++) ... v = (v << 4) | d
HexNum(s, p, v) ==
   IF HexDigit(At(s, p)) < 0 THEN [p |-> p, v |-> v]
   ELSE Then(Or32(Mul32(v, 16), HexDigit(At(s, p))), LAMBDA w : HexNum(s, p + 1, w))

RECURSIVE DecNum(_, _, _)
\* while (isdigit (*p)) v = v * 10 + *p++ - '0'
DecNum(s, p, v) ==
   IF ~isdigit(At(s, p)) THEN [p |-> p, v |-> v]
   ELSE Then(Add32(Mul32(v, 10), Ord(At(s, p)) - 48), LAMBDA w : DecNum(s, p + 1, w))

RECURSIVE SkipBlanks(_, _)
\* while (*p && *p <= ' ') ++p
SkipBlanks(s, p) == IF isblank(At(s, p)) THEN SkipBlanks(s, p + 1) ELSE p

RECURSIVE ScanName(_, _, _)
\* for (; *p == '_' || isalnum (*p); p++) *n++ = toupper (*p)
ScanName(s, p, n) ==
   IF At(s, p) = "_" \/ isalnum(At(s, p))
   THEN ScanName(s, p + 1, Append(n, toupper(At(s, p))))
   ELSE [p |-> p, id |-> n]

IsOperator(c) == c \in {"+", "-", "&", "|", "*", "%", "/"}

\* the switch of the reduce loop
ApplyOp(op, vl, vr) ==
   IF op = "+" THEN Add32(vl, vr)
   ELSE IF op = "-" THEN Sub32(vl, vr)
   ELSE IF op = "*" THEN Mul32(vl, vr)
   ELSE IF op = "/" THEN (IF vr = 0 THEN 0 ELSE UDiv32(vl, vr))
   ELSE IF op = "%" THEN (IF vr = 0 THEN 0 ELSE UMod32(vl, vr))
   ELSE IF op = "&" THEN And32(vl, vr)
   ELSE IF op = "|" THEN Or32(vl, vr)
   ELSE 0

RECURSIVE Reduce(_, _, _)
\* while (osp > 0) : pop the top operator and the two top values, push the result
Reduce(sval, sop, dz) ==
   IF Len(sop) = 0 THEN [v |-> sval[1], dz |-> dz]
   ELSE LET op == sop[Len(sop)]
            vr == sval[Len(sval)]
            vl == sval[Len(sval) - 1]
        IN Reduce(Append(SubSeq(sval, 1, Len(sval) - 2), ApplyOp(op, vl, vr)),
                  SubSeq(sop, 1, Len(sop) - 1),
                  dz \/ (op \in {"/", "%"} /\ vr = 0))

\* the depth of both stacks
ExprMax == 8

\* "done" of expr: the alternation check, then the reduction
exprDone(p, sval, sop, acc) ==
   IF Len(sop) + 1 # Len(sval)
   THEN [p |-> 0, v |-> IF Len(sval) > 0 THEN sval[1] ELSE 0,
         errs |-> Append(acc.errs, "expr syntax"), used |-> acc.used, dz |-> acc.dz]
   ELSE LET r == Reduce(sval, sop, acc.dz)
        IN [p |-> p, v |-> r.v, errs |-> acc.errs, used |-> acc.used, dz |-> r.dz]

\* a variant of UndefinedLabel: the message whatever allow_undef is
UndefinedLabelAlways(errs, allow_undef) == Append(errs, "undefined label in expr")

\* if (!lbl) of expr: the messages after a name that is not in the table
UndefinedLabel(errs, allow_undef) ==
   IF allow_undef THEN errs ELSE Append(errs, "undefined label in expr")

RECURSIVE expr(_, _, _), exprLoop(_, _, _, _, _, _)
\* what one round of the for (;;) of expr reads at p (blanks skipped):
\* [k, p, v, op, acc] with k = "value" for a value v, "op" for an operator op,
\* "done" for a goto done; p is the position after it.
\* c = [T, mainlbl, allow_undef, pc]
exprItem(c, s, p, acc) ==
   LET ch == At(s, p)
       Item(k, q, v, op, a) == [k |-> k, p |-> q, v |-> v, op |-> op, acc |-> a]
   IN IF ch = "("
      THEN LET vp == expr(c, s, p + 1)
               a == [errs |-> acc.errs \o vp.errs, used |-> acc.used \cup vp.used,
                     dz |-> acc.dz \/ vp.dz]
           IN Item(IF vp.p # 0 /\ At(s, vp.p) = ")" THEN "value" ELSE "done",
                   IF vp.p = 0 THEN 0 ELSE vp.p + 1, vp.v, "", a)
      ELSE IF ch = "$"
      THEN IF At(s, p + 1) = "$" THEN Item("value", p + 2, c.pc, "", acc)
           ELSE LET h == HexNum(s, p + 1, 0) IN Item("value", h.p, h.v, "", acc)
      ELSE IF isdigit(ch) \/ (ch = "-" /\ isdigit(At(s, p + 1)))
      THEN LET minus == ch = "-"
               d == DecNum(s, IF minus THEN p + 1 ELSE p, 0)
           IN Item("value", d.p, IF minus THEN Neg32(d.v) ELSE d.v, "", acc)
      ELSE IF ch = "'" /\ At(s, p + 2) = "'"
      THEN Item("value", p + 3, Ord(At(s, p + 1)), "", acc)
      ELSE IF IsOperator(ch)
      THEN Item("op", p + 1, 0, ch, acc)
      ELSE IF ch = ":" \/ isalpha(ch) \/ ch = "."
      THEN LET p1 == IF ch = ":" THEN p + 1 ELSE p
               local == At(s, p1) = "."
               p2 == IF local THEN p1 + 1 ELSE p1
               e1 == IF local /\ c.mainlbl = NoLabel
                     THEN Append(acc.errs, "local label in expr without main label")
                     ELSE acc.errs
               n == ScanName(s, p2, << >>)
               lbl == find_label(c.T, IF local THEN c.mainlbl ELSE NoLabel, n.id)
           IN IF lbl = NoLabel
              THEN Item("value", n.p, 0, "",
                        [acc EXCEPT !.errs = UndefinedLabel(e1, c.allow_undef)])
              ELSE Item("value", n.p, Slot(c.T.tlabel, lbl).value, "",
                        [acc EXCEPT !.errs = e1, !.used = acc.used \cup {lbl}])
      ELSE Item("done", p, 0, "", acc)

\* what the round does with the item it read: push it and go round again, or
\* goto done when the stack it belongs to is full or it breaks the alternation
exprStep(c, s, sval, sop, it) ==
   IF \/ it.k = "done"
      \/ it.k = "value" /\ (Len(sval) # Len(sop) \/ Len(sval) >= ExprMax)
      \/ it.k = "op" /\ (Len(sop) + 1 # Len(sval) \/ Len(sop) >= ExprMax)
   THEN exprDone(it.p, sval, sop, it.acc)
   ELSE exprLoop(c, s, it.p,
                 IF it.k = "value" THEN Append(sval, it.v) ELSE sval,
                 IF it.k = "op" THEN Append(sop, it.op) ELSE sop,
                 it.acc)

\* one round of the for (;;) of expr, and the rounds after it
exprLoop(c, s, p0, sval, sop, acc) ==
   exprStep(c, s, sval, sop, exprItem(c, s, SkipBlanks(s, p0), acc))

\* expr (lineno, mainlbl, allow_undef, pc, p)
expr(c, s, p) ==
   exprLoop(c, s, p, << >>, << >>, [errs |-> << >>, used |-> {}, dz |-> FALSE])

(***************************************************************************)
(* Registers and opcodes (src/eonasm.c, "registers", "opcodes")            *)
(***************************************************************************)
RECURSIVE strcmp(_, _, _)
\* strcmp of two NUL-terminated names, from index i: negative, 0 or positive
strcmp(a, b, i) ==
   IF At(a, i) # At(b, i) THEN Ord(At(a, i)) - Ord(At(b, i))
   ELSE IF At(a, i) = NUL THEN 0
   ELSE strcmp(a, b, i + 1)

RECURSIVE bsearch(_, _, _, _)
\* the binary search of reg_find and op_find over a[lo .. hi] (indexes from 0):
\* the index found, or -1
bsearch(tab, id, a, b) ==
   IF a > b THEN -1
   ELSE LET m == (a + b) \div 2
            r == strcmp(id, tab[m + 1].id, 1)
        IN IF r = 0 THEN m
           ELSE IF r < 0 THEN bsearch(tab, id, a, m - 1)
           ELSE bsearch(tab, id, m + 1, b)

vreg ==
   <<
      [id |-> <<"R", "0">>, rno |-> 0],
      [id |-> <<"R", "1">>, rno |-> 1],
      [id |-> <<"R", "1", "0">>, rno |-> 10],
      [id |-> <<"R", "1", "1">>, rno |-> 11],
      [id |-> <<"R", "1", "2">>, rno |-> 12],
      [id |-> <<"R", "1", "3">>, rno |-> 13],
      [id |-> <<"R", "1", "4">>, rno |-> 14],
      [id |-> <<"R", "2">>, rno |-> 2],
      [id |-> <<"R", "3">>, rno |-> 3],
      [id |-> <<"R", "4">>, rno |-> 4],
      [id |-> <<"R", "5">>, rno |-> 5],
      [id |-> <<"R", "6">>, rno |-> 6],
      [id |-> <<"R", "7">>, rno |-> 7],
      [id |-> <<"R", "8">>, rno |-> 8],
      [id |-> <<"R", "9">>, rno |-> 9],
      [id |-> <<"S", "P">>, rno |-> 15]
   >>

reg_find(reg) ==
   LET m == bsearch(vreg, reg, 0, Len(vreg) - 1)
   IN IF m < 0 THEN -1 ELSE vreg[m + 1].rno

\* the enumeration OP_... is modelled by the names of its members
vop ==
   <<
      [id |-> <<"A", "D", "D">>, op |-> "ADD"],
      [id |-> <<"A", "N", "D">>, op |-> "AND"],
      [id |-> <<"B", "E", "Q">>, op |-> "BEQ"],
      [id |-> <<"B", "L", "E">>, op |-> "BLE"],
      [id |-> <<"B", "L", "E", "I">>, op |-> "BLEI"],
      [id |-> <<"B", "L", "T">>, op |-> "BLT"],
      [id |-> <<"B", "L", "T", "I">>, op |-> "BLTI"],
      [id |-> <<"B", "N", "E">>, op |-> "BNE"],
      [id |-> <<"B", "N", "Z">>, op |-> "BNZ"],
      [id |-> <<"B", "R", "A">>, op |-> "BRA"],
      [id |-> <<"B", "S", "W", "A", "P">>, op |-> "BSWAP"],
      [id |-> <<"B", "Z">>, op |-> "BZ"],
      [id |-> <<"C", "S", "E", "T", "N">>, op |-> "CSETN"],
      [id |-> <<"C", "S", "E", "T", "N", "N">>, op |-> "CSETNN"],
      [id |-> <<"C", "S", "E", "T", "N", "P">>, op |-> "CSETNP"],
      [id |-> <<"C", "S", "E", "T", "N", "Z">>, op |-> "CSETNZ"],
      [id |-> <<"C", "S", "E", "T", "P">>, op |-> "CSETP"],
      [id |-> <<"C", "S", "E", "T", "Z">>, op |-> "CSETZ"],
      [id |-> <<"E", "N", "T", "E", "R">>, op |-> "ENTER"],
      [id |-> <<"E", "R", "E", "T">>, op |-> "ERET"],
      [id |-> <<"G", "E", "T">>, op |-> "GET"],
      [id |-> <<"I", "L", "L", "E", "G", "A", "L">>, op |-> "ILL"],
      [id |-> <<"I", "N">>, op |-> "IN"],
      [id |-> <<"I", "R", "E", "T">>, op |-> "IRET"],
      [id |-> <<"I", "S", "T", "A", "T">>, op |-> "ISTAT"],
      [id |-> <<"J", "A", "L">>, op |-> "JAL"],
      [id |-> <<"J", "M", "P">>, op |-> "JMP"],
      [id |-> <<"L", "D", "1">>, op |-> "LD1"],
      [id |-> <<"L", "D", "1", "I">>, op |-> "LD1I"],
      [id |-> <<"L", "D", "2">>, op |-> "LD2"],
      [id |-> <<"L", "D", "2", "I">>, op |-> "LD2I"],
      [id |-> <<"L", "D", "4">>, op |-> "LD4"],
      [id |-> <<"L", "D", "4", "I">>, op |-> "LD4I"],
      [id |-> <<"L", "D", "8">>, op |-> "LD8"],
      [id |-> <<"L", "E", "A">>, op |-> "LEA"],
      [id |-> <<"L", "I">>, op |-> "LI"],
      [id |-> <<"M", "V">>, op |-> "MV"],
      [id |-> <<"N", "O", "P">>, op |-> "NOP"],
      [id |-> <<"O", "R">>, op |-> "OR"],
      [id |-> <<"O", "U", "T">>, op |-> "OUT"],
      [id |-> <<"R", "E", "T">>, op |-> "RET"],
      [id |-> <<"S", "E", "T">>, op |-> "SET"],
      [id |-> <<"S", "E", "X", "T", "1">>, op |-> "SEXT1"],
      [id |-> <<"S", "E", "X", "T", "2">>, op |-> "SEXT2"],
      [id |-> <<"S", "E", "X", "T", "4">>, op |-> "SEXT4"],
      [id |-> <<"S", "H", "L">>, op |-> "SHL"],
      [id |-> <<"S", "H", "R">>, op |-> "SHR"],
      [id |-> <<"S", "H", "R", "I">>, op |-> "SHRI"],
      [id |-> <<"S", "I", "G", "N", "A", "L">>, op |-> "SIGNAL"],
      [id |-> <<"S", "R", "E", "T">>, op |-> "SRET"],
      [id |-> <<"S", "T", "1">>, op |-> "ST1"],
      [id |-> <<"S", "T", "2">>, op |-> "ST2"],
      [id |-> <<"S", "T", "4">>, op |-> "ST4"],
      [id |-> <<"S", "T", "8">>, op |-> "ST8"],
      [id |-> <<"S", "U", "B">>, op |-> "SUB"],
      [id |-> <<"S", "Y", "S", "C", "A", "L", "L">>, op |-> "SYS"],
      [id |-> <<"W", "A", "I", "T">>, op |-> "WAIT"],
      [id |-> <<"X", "O", "R">>, op |-> "XOR"],
      [id |-> <<"Z", "E", "X", "T", "1">>, op |-> "ZEXT1"],
      [id |-> <<"Z", "E", "X", "T", "2">>, op |-> "ZEXT2"],
      [id |-> <<"Z", "E", "X", "T", "4">>, op |-> "ZEXT4"]
   >>

op_find(op) ==
   LET m == bsearch(vop, op, 0, Len(vop) - 1)
   IN IF m < 0 THEN "" ELSE vop[m + 1].op

(***************************************************************************)
(* Opcode match engine (src/eonasm.c, "opcode match engine")               *)
(*                                                                         *)
(* An arg_t is [k, rno, val] with k one of "_", "R", "N", "M".             *)
(***************************************************************************)
tmatch ==
   <<
      [op |-> "ADD", na |-> 3, args |-> <<"R", "R", "R">>, kind |-> "R", word |-> 16384],
      [op |-> "ADD", na |-> 3, args |-> <<"R", "R", "N">>, kind |-> "A", word |-> 12292],
      [op |-> "ADD", na |-> 2, args |-> <<"R", "N", "_">>, kind |-> "a", word |-> 12292],
      [op |-> "ADD", na |-> 2, args |-> <<"R", "R", "_">>, kind |-> "r", word |-> 16384],
      [op |-> "AND", na |-> 3, args |-> <<"R", "R", "R">>, kind |-> "R", word |-> 32768],
      [op |-> "AND", na |-> 3, args |-> <<"R", "R", "N">>, kind |-> "A", word |-> 12296],
      [op |-> "AND", na |-> 2, args |-> <<"R", "N", "_">>, kind |-> "a", word |-> 12296],
      [op |-> "AND", na |-> 2, args |-> <<"R", "R", "_">>, kind |-> "r", word |-> 32768],
      [op |-> "BEQ", na |-> 3, args |-> <<"R", "R", "N">>, kind |-> "b", word |-> 8192],
      [op |-> "BLE", na |-> 3, args |-> <<"R", "R", "N">>, kind |-> "b", word |-> 8196],
      [op |-> "BLEI", na |-> 3, args |-> <<"R", "R", "N">>, kind |-> "b", word |-> 8197],
      [op |-> "BLT", na |-> 3, args |-> <<"R", "R", "N">>, kind |-> "b", word |-> 8194],
      [op |-> "BLTI", na |-> 3, args |-> <<"R", "R", "N">>, kind |-> "b", word |-> 8195],
      [op |-> "BNE", na |-> 3, args |-> <<"R", "R", "N">>, kind |-> "b", word |-> 8193],
      [op |-> "BNZ", na |-> 2, args |-> <<"R", "N", "_">>, kind |-> "!", word |-> 8433],
      [op |-> "BRA", na |-> 1, args |-> <<"N", "_", "_">>, kind |-> "B", word |-> 12272],
      [op |-> "BSWAP", na |-> 2, args |-> <<"R", "R", "_">>, kind |-> "U", word |-> 4],
      [op |-> "BSWAP", na |-> 1, args |-> <<"R", "_", "_">>, kind |-> "u", word |-> 4],
      [op |-> "BZ", na |-> 2, args |-> <<"R", "N", "_">>, kind |-> "!", word |-> 8432],
      [op |-> "CSETN", na |-> 2, args |-> <<"R", "R", "_">>, kind |-> "U", word |-> 10],
      [op |-> "CSETN", na |-> 1, args |-> <<"R", "_", "_">>, kind |-> "u", word |-> 10],
      [op |-> "CSETNN", na |-> 2, args |-> <<"R", "R", "_">>, kind |-> "U", word |-> 11],
      [op |-> "CSETNN", na |-> 1, args |-> <<"R", "_", "_">>, kind |-> "u", word |-> 11],
      [op |-> "CSETNP", na |-> 2, args |-> <<"R", "R", "_">>, kind |-> "U", word |-> 13],
      [op |-> "CSETNP", na |-> 1, args |-> <<"R", "_", "_">>, kind |-> "u", word |-> 13],
      [op |-> "CSETNZ", na |-> 2, args |-> <<"R", "R", "_">>, kind |-> "U", word |-> 9],
      [op |-> "CSETNZ", na |-> 1, args |-> <<"R", "_", "_">>, kind |-> "u", word |-> 9],
      [op |-> "CSETP", na |-> 2, args |-> <<"R", "R", "_">>, kind |-> "U", word |-> 12],
      [op |-> "CSETP", na |-> 1, args |-> <<"R", "_", "_">>, kind |-> "u", word |-> 12],
      [op |-> "CSETZ", na |-> 2, args |-> <<"R", "R", "_">>, kind |-> "U", word |-> 8],
      [op |-> "CSETZ", na |-> 1, args |-> <<"R", "_", "_">>, kind |-> "u", word |-> 8],
      [op |-> "ENTER", na |-> 1, args |-> <<"N", "_", "_">>, kind |-> "E", word |-> 4088],
      [op |-> "ERET", na |-> 0, args |-> <<"_", "_", "_">>, kind |-> "N", word |-> 4086],
      [op |-> "GET", na |-> 2, args |-> <<"R", "N", "_">>, kind |-> "G", word |-> 3848],
      [op |-> "ILL", na |-> 0, args |-> <<"_", "_", "_">>, kind |-> "N", word |-> 4080],
      [op |-> "IN", na |-> 2, args |-> <<"R", "R", "_">>, kind |-> "U", word |-> 14],
      [op |-> "IRET", na |-> 0, args |-> <<"_", "_", "_">>, kind |-> "N", word |-> 4084],
      [op |-> "ISTAT", na |-> 1, args |-> <<"R", "_", "_">>, kind |-> "1", word |-> 3844],
      [op |-> "JAL", na |-> 1, args |-> <<"N", "_", "_">>, kind |-> "J", word |-> 4093],
      [op |-> "JAL", na |-> 1, args |-> <<"R", "_", "_">>, kind |-> "1", word |-> 3841],
      [op |-> "JMP", na |-> 1, args |-> <<"N", "_", "_">>, kind |-> "J", word |-> 4092],
      [op |-> "JMP", na |-> 1, args |-> <<"R", "_", "_">>, kind |-> "1", word |-> 3840],
      [op |-> "LD1", na |-> 2, args |-> <<"R", "M", "_">>, kind |-> "M", word |-> 4096],
      [op |-> "LD1I", na |-> 2, args |-> <<"R", "M", "_">>, kind |-> "M", word |-> 4097],
      [op |-> "LD2", na |-> 2, args |-> <<"R", "M", "_">>, kind |-> "M", word |-> 4098],
      [op |-> "LD2I", na |-> 2, args |-> <<"R", "M", "_">>, kind |-> "M", word |-> 4099],
      [op |-> "LD4", na |-> 2, args |-> <<"R", "M", "_">>, kind |-> "M", word |-> 4100],
      [op |-> "LD4I", na |-> 2, args |-> <<"R", "M", "_">>, kind |-> "M", word |-> 4101],
      [op |-> "LD8", na |-> 2, args |-> <<"R", "M", "_">>, kind |-> "M", word |-> 4102],
      [op |-> "LEA", na |-> 2, args |-> <<"R", "N", "_">>, kind |-> "L", word |-> 3853],
      [op |-> "LEA", na |-> 2, args |-> <<"R", "M", "_">>, kind |-> "l", word |-> 3850],
      [op |-> "LI", na |-> 2, args |-> <<"R", "N", "_">>, kind |-> "I", word |-> 3852],
      [op |-> "MV", na |-> 2, args |-> <<"R", "R", "_">>, kind |-> "=", word |-> 37104],
      [op |-> "NOP", na |-> 0, args |-> <<"_", "_", "_">>, kind |-> "N", word |-> 4081],
      [op |-> "OR", na |-> 3, args |-> <<"R", "R", "R">>, kind |-> "R", word |-> 36864],
      [op |-> "OR", na |-> 3, args |-> <<"R", "R", "N">>, kind |-> "A", word |-> 12297],
      [op |-> "OR", na |-> 2, args |-> <<"R", "N", "_">>, kind |-> "a", word |-> 12297],
      [op |-> "OR", na |-> 2, args |-> <<"R", "R", "_">>, kind |-> "r", word |-> 36864],
      [op |-> "OUT", na |-> 2, args |-> <<"R", "R", "_">>, kind |-> "U", word |-> 15],
      [op |-> "RET", na |-> 0, args |-> <<"_", "_", "_">>, kind |-> "N", word |-> 4064],
      [op |-> "SET", na |-> 2, args |-> <<"N", "R", "_">>, kind |-> "g", word |-> 3849],
      [op |-> "SEXT1", na |-> 2, args |-> <<"R", "R", "_">>, kind |-> "U", word |-> 5],
      [op |-> "SEXT1", na |-> 1, args |-> <<"R", "_", "_">>, kind |-> "u", word |-> 5],
      [op |-> "SEXT2", na |-> 2, args |-> <<"R", "R", "_">>, kind |-> "U", word |-> 6],
      [op |-> "SEXT2", na |-> 1, args |-> <<"R", "_", "_">>, kind |-> "u", word |-> 6],
      [op |-> "SEXT4", na |-> 2, args |-> <<"R", "R", "_">>, kind |-> "U", word |-> 7],
      [op |-> "SEXT4", na |-> 1, args |-> <<"R", "_", "_">>, kind |-> "u", word |-> 7],
      [op |-> "SHL", na |-> 3, args |-> <<"R", "R", "R">>, kind |-> "R", word |-> 45056],
      [op |-> "SHL", na |-> 3, args |-> <<"R", "R", "N">>, kind |-> "A", word |-> 12299],
      [op |-> "SHL", na |-> 2, args |-> <<"R", "N", "_">>, kind |-> "a", word |-> 12299],
      [op |-> "SHL", na |-> 2, args |-> <<"R", "R", "_">>, kind |-> "r", word |-> 45056],
      [op |-> "SHR", na |-> 3, args |-> <<"R", "R", "R">>, kind |-> "R", word |-> 49152],
      [op |-> "SHR", na |-> 3, args |-> <<"R", "R", "N">>, kind |-> "A", word |-> 12300],
      [op |-> "SHR", na |-> 2, args |-> <<"R", "N", "_">>, kind |-> "a", word |-> 12300],
      [op |-> "SHR", na |-> 2, args |-> <<"R", "R", "_">>, kind |-> "r", word |-> 49152],
      [op |-> "SHRI", na |-> 3, args |-> <<"R", "R", "R">>, kind |-> "R", word |-> 53248],
      [op |-> "SHRI", na |-> 3, args |-> <<"R", "R", "N">>, kind |-> "A", word |-> 12301],
      [op |-> "SHRI", na |-> 2, args |-> <<"R", "N", "_">>, kind |-> "a", word |-> 12301],
      [op |-> "SHRI", na |-> 2, args |-> <<"R", "R", "_">>, kind |-> "r", word |-> 53248],
      [op |-> "SIGNAL", na |-> 1, args |-> <<"N", "_", "_">>, kind |-> "E", word |-> 4089],
      [op |-> "SRET", na |-> 0, args |-> <<"_", "_", "_">>, kind |-> "N", word |-> 4085],
      [op |-> "ST1", na |-> 2, args |-> <<"M", "R", "_">>, kind |-> "m", word |-> 4104],
      [op |-> "ST2", na |-> 2, args |-> <<"M", "R", "_">>, kind |-> "m", word |-> 4105],
      [op |-> "ST4", na |-> 2, args |-> <<"M", "R", "_">>, kind |-> "m", word |-> 4106],
      [op |-> "ST8", na |-> 2, args |-> <<"M", "R", "_">>, kind |-> "m", word |-> 4107],
      [op |-> "SUB", na |-> 3, args |-> <<"R", "R", "R">>, kind |-> "R", word |-> 20480],
      [op |-> "SUB", na |-> 3, args |-> <<"R", "R", "N">>, kind |-> "A", word |-> 12293],
      [op |-> "SUB", na |-> 2, args |-> <<"R", "N", "_">>, kind |-> "a", word |-> 12293],
      [op |-> "SUB", na |-> 2, args |-> <<"R", "R", "_">>, kind |-> "r", word |-> 20480],
      [op |-> "SYS", na |-> 0, args |-> <<"_", "_", "_">>, kind |-> "N", word |-> 4082],
      [op |-> "WAIT", na |-> 0, args |-> <<"_", "_", "_">>, kind |-> "N", word |-> 4083],
      [op |-> "XOR", na |-> 3, args |-> <<"R", "R", "R">>, kind |-> "R", word |-> 40960],
      [op |-> "XOR", na |-> 3, args |-> <<"R", "R", "N">>, kind |-> "A", word |-> 12298],
      [op |-> "XOR", na |-> 2, args |-> <<"R", "N", "_">>, kind |-> "a", word |-> 12298],
      [op |-> "XOR", na |-> 2, args |-> <<"R", "R", "_">>, kind |-> "r", word |-> 40960],
      [op |-> "ZEXT1", na |-> 2, args |-> <<"R", "R", "_">>, kind |-> "U", word |-> 1],
      [op |-> "ZEXT1", na |-> 1, args |-> <<"R", "_", "_">>, kind |-> "u", word |-> 1],
      [op |-> "ZEXT2", na |-> 2, args |-> <<"R", "R", "_">>, kind |-> "U", word |-> 2],
      [op |-> "ZEXT2", na |-> 1, args |-> <<"R", "_", "_">>, kind |-> "u", word |-> 2],
      [op |-> "ZEXT4", na |-> 2, args |-> <<"R", "R", "_">>, kind |-> "U", word |-> 3],
      [op |-> "ZEXT4", na |-> 1, args |-> <<"R", "_", "_">>, kind |-> "u", word |-> 3]
   >>

\* row i of tmatch (from 1) has the opcode, the number of arguments and their kinds
Fits(op, na, va, i) ==
   /\ tmatch[i].op = op
   /\ tmatch[i].na = na
   /\ \A n \in 1..na : va[n].k = tmatch[i].args[n]

\* the for loop of match returns the first row that fits: that row, or 0
match(op, na, va) ==
   LET rows == { i \in 1..Len(tmatch) : Fits(op, na, va, i) }
   IN IF rows = {} THEN 0 ELSE CHOOSE i \in rows : \A j \in rows : i <= j

(***************************************************************************)
(* The encoder: the switch (k) of assemble, with its "goto again"          *)
(* (src/eonasm.c, "two pass assembler").  The result is the bytes appended *)
(* to code and the messages given to error ().                             *)
(***************************************************************************)
\* x << n for a register number, n in {4, 8}
Shl(x, n) == Mul32(x, IF n = 4 THEN 16 ELSE 256)

\* the range check of the kinds A and M
ImmOutOfRange(val) == val >= 32768 \/ val < -32768

\* kind B: int off = ((int) va[0].val - ((int) pc + 4)) / 2
BranchOff(val, pc) == CDiv2(Sub32(val, Add32(pc, 4)))

\* a variant of BranchOutOfRange: the same limit on both sides
BranchOutOfRangeSym(off) == off >= 32768 \/ off <= -32768

\* kind B: off >= 32768 || off < -32768
BranchOutOfRange(off) == off >= 32768 \/ off < -32768

\* a variant of FoldRegs: the two registers in each other's nibble
FoldRegsSwapped(w, r0, r1) == Or32(w, Or32(Shl(r0, 4), Shl(r1, 8)))

\* kind b: w |= (va[0].rno << 8) | (va[1].rno << 4)
FoldRegs(w, r0, r1) == Or32(w, Or32(Shl(r0, 8), Shl(r1, 4)))

\* a variant of LiFitsWord: the least value of a signed 16-bit field left out
LiFitsWordSym(n) == n > -32768 /\ n <= 32767

\* the test of LI for the form with a 16-bit immediate
LiFitsWord(n) == n >= -32768 /\ n <= 32767

\* kinds J and L: the four bytes of off, most significant first
Big32(off) == << U8(Shr(off, 24)), U8(Shr(off, 16)), U8(Shr(off, 8)), U8(off) >>

RECURSIVE encode(_, _, _, _, _)
encode(k, w, va, pc, out) ==
   LET hi == w \div 256
       Err(c, m) == IF out /\ c THEN << m >> ELSE << >>
   IN CASE k = "N" -> [code |-> << U8(hi), U8(w) >>, errs |-> << >>]
        [] k = "R" ->
             [code |-> << U8(Or32(hi, va[1].rno)),
                          U8(Or32(Shl(va[2].rno, 4), va[3].rno)) >>,
              errs |-> << >>]
        [] k = "r" ->
             encode("R", w, [va EXCEPT ![3].rno = va[2].rno, ![2].rno = va[1].rno], pc, out)
        [] k = "a" ->
             encode("A", w, [va EXCEPT ![3].val = va[2].val, ![2].rno = va[1].rno], pc, out)
        [] k = "A" ->
             [code |-> << U8(Or32(hi, va[1].rno)), U8(Or32(w, Shl(va[2].rno, 4))),
                          U8(Shr(va[3].val, 8)), U8(va[3].val) >>,
              errs |-> Err(ImmOutOfRange(va[3].val), "inmediate out of range")]
        [] k = "U" ->
             [code |-> << U8(Or32(hi, va[1].rno)), U8(Or32(w, Shl(va[2].rno, 4))) >>,
              errs |-> << >>]
        [] k = "u" ->
             [code |-> << U8(Or32(hi, va[1].rno)), U8(Or32(w, Shl(va[1].rno, 4))) >>,
              errs |-> << >>]
        [] k = "E" ->
             encode("A", w, [va EXCEPT ![1].rno = 0, ![2].rno = 0, ![3].val = va[1].val],
                    pc, out)
        [] k = "B" ->
             LET off == BranchOff(va[1].val, pc)
             IN [code |-> << U8(hi), U8(w), U8(Shr(off, 8)), U8(off) >>,
                 errs |-> Err(BranchOutOfRange(off), "branch out of range")]
        [] k = "b" ->
             encode("B", FoldRegs(w, va[1].rno, va[2].rno),
                    [va EXCEPT ![1].val = va[3].val], pc, out)
        [] k = "!" ->
             encode("B", Or32(w, Shl(va[1].rno, 8)),
                    [va EXCEPT ![1].val = va[2].val], pc, out)
        [] k = "M" ->
             [code |-> << U8(Or32(hi, va[1].rno)), U8(Or32(w, Shl(va[2].rno, 4))),
                          U8(Shr(va[2].val, 8)), U8(va[2].val) >>,
              errs |-> Err(ImmOutOfRange(va[2].val), "memory offset out of range")]
        [] k = "m" ->
             encode("M", w,
                    [va EXCEPT ![3].rno = va[2].rno, ![2].rno = va[1].rno,
                               ![2].val = va[1].val, ![1].rno = va[2].rno],
                    pc, out)
        [] k = "J" ->
             [code |-> << U8(hi), U8(w) >>
                          \o Big32(CDiv2(Sub32(va[1].val, Add32(pc, 6)))),
              errs |-> << >>]
        [] k = "L" ->
             [code |-> << U8(hi), U8(Or32(w, Shl(va[1].rno, 4))) >>
                          \o Big32(Sub32(va[2].val, Add32(pc, 6))),
              errs |-> << >>]
        [] k = "l" ->
             IF va[2].rno = 15
             THEN encode("M", w, [va EXCEPT ![2].rno = va[1].rno, ![1].rno = 0], pc, out)
             ELSE encode("A", 12292, [va EXCEPT ![3].val = va[2].val], pc, out)
        [] k = "I" ->
             LET n == va[2].val
             IN IF n = 0
                THEN [code |-> << U8(Or32(128, va[1].rno)), 255 >>, errs |-> << >>]
                ELSE IF n = 1
                THEN [code |-> << U8(Or32(0, va[1].rno)), 248 >>, errs |-> << >>]
                ELSE IF LiFitsWord(n)
                THEN encode("A", 12537, [va EXCEPT ![2].rno = 0, ![3].val = va[2].val],
                            pc, out)
                ELSE [code |-> << U8(hi), U8(Or32(w, Shl(va[1].rno, 4))) >> \o Big32(n),
                      errs |-> << >>]
        [] k = "1" ->
             [code |-> << U8(hi), U8(Or32(w, Shl(va[1].rno, 4))) >>, errs |-> << >>]
        [] k = "=" ->
             [code |-> << U8(Or32(hi, va[1].rno)), U8(Or32(w, va[2].rno)) >>,
              errs |-> << >>]
        [] k = "G" ->
             [code |-> << U8(hi), U8(Or32(w, Shl(va[1].rno, 4))),
                          U8(Shr(va[2].val, 8)), U8(va[2].val) >>,
              errs |-> Err(va[2].val < 0 \/ va[2].val > 15, "special register of range")]
        [] k = "g" ->
             encode("G", w, [va EXCEPT ![1].rno = va[2].rno, ![2].val = va[1].val], pc, out)
        [] OTHER -> [code |-> << >>, errs |-> << "opcode type" >>]

(***************************************************************************)
(* The line processor: the body of the while loop of assemble              *)
(* (src/eonasm.c, "two pass assembler").                                   *)
(***************************************************************************)
\* the allow_undef argument of expr for .ORG, .EQU, .ZERO and .SPACE
DirectiveAllowUndef(out) == FALSE

\* a variant of OperandAllowUndef: undefined labels reported on every pass
OperandAllowUndefNever(out) == FALSE

\* the allow_undef argument of expr for .BYTE, .WORD and instruction operands
OperandAllowUndef(out) == ~out

RECURSIVE ScanAlnum(_, _, _)
\* while (isalnum (*p)) *id++ = toupper (*p++)
ScanAlnum(s, p, n) ==
   IF isalnum(At(s, p)) THEN ScanAlnum(s, p + 1, Append(n, toupper(At(s, p))))
   ELSE [p |-> p, id |-> n]

RECURSIVE ScanAlpha(_, _, _)
\* for (++p; isalpha (*p);) *id++ = toupper (*p++)
ScanAlpha(s, p, n) ==
   IF isalpha(At(s, p)) THEN ScanAlpha(s, p + 1, Append(n, toupper(At(s, p))))
   ELSE [p |-> p, id |-> n]

\* tlabel with LABEL_USED set in the slots that an expression referred to
MarkUsed(tl, used) ==
   [i \in DOMAIN tl |->
      IF i \in used THEN [tl[i] EXCEPT !.flags = BitOp("|", @, LABEL_USED, 8)] ELSE tl[i]]

NoArg == [k |-> "_", rno |-> 0, val |-> 0]

RECURSIVE argsLoop(_, _, _)
\* va[na++] = a, sep = true, and the rounds after it
argsArg(c, s, st, q, a, e, u, d) ==
   argsLoop(c, s, [p |-> q, na |-> st.na + 1, sep |-> TRUE,
                   va |-> [st.va EXCEPT ![st.na + 1] = a],
                   errs |-> e, used |-> u, dz |-> d, next |-> FALSE])

\* goto next out of the loop over the arguments
argsNext(st, e, u, d) == [st EXCEPT !.errs = e, !.used = u, !.dz = d, !.next = TRUE]

\* "number": vp is what expr returned
argsNumber(c, s, st, vp) ==
   IF vp.p = 0
   THEN argsNext(st, st.errs \o vp.errs, st.used \cup vp.used, st.dz \/ vp.dz)
   ELSE argsArg(c, s, st, vp.p, [k |-> "N", rno |-> 0, val |-> vp.v],
                st.errs \o vp.errs, st.used \cup vp.used, st.dz \/ vp.dz)

\* "memory access": rno is the register found, p2 the position after it (blanks
\* skipped), vp what expr returned for the signed offset, if there is one
argsMemory(c, s, st, rno, p2, vp) ==
   LET e2 == (IF rno < 0 THEN Append(st.errs, "unknown register") ELSE st.errs) \o vp.errs
       u2 == st.used \cup vp.used
       d2 == st.dz \/ vp.dz
   IN IF vp.p = 0 THEN argsNext(st, e2, u2, d2)
      ELSE IF At(s, vp.p) # "]"
      THEN argsNext(st, Append(e2, "memory access arg without ']'"), u2, d2)
      ELSE argsArg(c, s, st, vp.p + 1,
                   [k |-> "M", rno |-> rno,
                    val |-> IF At(s, p2) = "-" THEN Neg32(vp.v) ELSE vp.v],
                   e2, u2, d2)

\* the register name of a memory access was read up to p2 (blanks skipped)
argsOffset(c, s, st, rno, p2) ==
   argsMemory(c, s, st, rno, p2,
              IF At(s, p2) \in {"+", "-"} THEN expr(c, s, p2 + 1)
              ELSE [p |-> p2, v |-> 0, errs |-> << >>, used |-> {}, dz |-> FALSE])

\* the for (bool sep = false; na < 3;) loop over the arguments.
\* st = [p, na, sep, va, errs, used, dz, next]; next is the "goto next"
argsLoop(c, s, st) ==
   IF st.na >= 3 THEN st
   ELSE
   LET p == SkipBlanks(s, st.p)
       ch == At(s, p)
   IN IF ch = ","
      THEN argsLoop(c, s, [st EXCEPT !.p = p + 1, !.sep = FALSE,
                                     !.errs = IF st.sep THEN @
                                              ELSE Append(@, "unexpected ','")])
      ELSE IF isalpha(ch)
      THEN LET n == ScanAlnum(s, p, << >>)
               rno == reg_find(n.id)
           IN IF rno < 0 THEN argsNumber(c, s, st, expr(c, s, p))
              ELSE argsArg(c, s, st, n.p, [k |-> "R", rno |-> rno, val |-> 0],
                           st.errs, st.used, st.dz)
      ELSE IF ch = "["
      THEN LET n == ScanAlnum(s, SkipBlanks(s, p + 1), << >>)
           IN argsOffset(c, s, st, reg_find(n.id), SkipBlanks(s, n.p))
      ELSE IF ch \in {":", ".", "$", "'", "-"} \/ isdigit(ch)
      THEN argsNumber(c, s, st, expr(c, s, p))
      ELSE [st EXCEPT !.p = p]

RECURSIVE CopyString(_, _, _)
\* for (++p; *p && *p != '"';) code[bytes++] = *p++
CopyString(s, p, code) ==
   IF At(s, p) # NUL /\ At(s, p) # "\""
   THEN CopyString(s, p + 1, Append(code, Ord(At(s, p))))
   ELSE [p |-> p, code |-> code]

RECURSIVE byteLoop(_, _, _, _)
\* the end of a round of .BYTE at q: another round after a ','
byteAgain(c, s, out, q, r) ==
   IF At(s, q) # "," THEN [r EXCEPT !.p = q]
   ELSE byteLoop(c, s, out, [r EXCEPT !.p = q + 1])

\* a string of .BYTE: cp is what the copy loop returned
byteString(c, s, out, st, cp) ==
   IF At(s, cp.p) # "\""
   THEN [st EXCEPT !.code = cp.code, !.errs = Append(@, "incomplete string"),
                   !.next = TRUE]
   ELSE byteAgain(c, s, out, SkipBlanks(s, cp.p + 1), [st EXCEPT !.code = cp.code])

\* a value of .BYTE: vp is what expr returned
byteValue(c, s, out, st, vp) ==
   LET r == [st EXCEPT !.errs = @ \o vp.errs, !.used = @ \cup vp.used, !.dz = @ \/ vp.dz]
   IN IF vp.p = 0 THEN [r EXCEPT !.next = TRUE]
      ELSE byteAgain(c, s, out, vp.p,
                     [r EXCEPT !.code = Append(@, U8(vp.v)),
                               !.errs = IF out /\ ULt(255, vp.v)
                                        THEN Append(@, ".BYTE overflow") ELSE @])

\* a round of .BYTE at p (blanks skipped)
byteItem(c, s, out, st, p) ==
   IF At(s, p) = "\"" THEN byteString(c, s, out, st, CopyString(s, p + 1, st.code))
   ELSE byteValue(c, s, out, st, expr(c, s, p))

\* the for (;;) of .BYTE.  st = [p, code, errs, used, dz, next]
byteLoop(c, s, out, st) == byteItem(c, s, out, st, SkipBlanks(s, st.p))

RECURSIVE wordLoop(_, _, _, _)
\* a value of .WORD: vp is what expr returned
wordValue(c, s, out, st, vp) ==
   LET r == [st EXCEPT !.errs = @ \o vp.errs, !.used = @ \cup vp.used, !.dz = @ \/ vp.dz]
       r2 == [r EXCEPT !.code = @ \o << U8(Shr(vp.v, 8)), U8(vp.v) >>,
                       !.errs = IF out /\ ULt(65536, vp.v)
                                THEN Append(@, ".WORD overflow") ELSE @]
   IN IF vp.p = 0 THEN [r EXCEPT !.next = TRUE]
      ELSE IF At(s, vp.p) # "," THEN [r2 EXCEPT !.p = vp.p]
      ELSE wordLoop(c, s, out, [r2 EXCEPT !.p = vp.p + 1])

\* the for (;;) of .WORD.  st = [p, code, errs, used, dz, next]
wordLoop(c, s, out, st) == wordValue(c, s, out, st, expr(c, s, st.p))

\* sizeof (code)
CodeSize == MAX_LINE

\* the test of a re-sighted label on a pass after pass 0: its value moves
\* a variant of LabelMoved: the flag LABEL_EQU not tested
LabelMovedAnyFlag(l, pc) == l.value # pc

LabelMoved(l, pc) == ~HasFlag(l, LABEL_EQU) /\ l.value # pc

\* a variant of LabelDuplicated: no pass takes a label found as a duplicate
LabelDuplicatedNever(pass) == FALSE

\* the test of a label found in the table: it is a duplicate
LabelDuplicated(pass) == pass = 0

\* "optional label".  a = [T, mainlbl, pc, more, pass, out];
\* the result is [T, mainlbl, more, lbl, p, errs, fatal, wild]
assemble_label(a, s) ==
   IF ~(isalpha(At(s, 1)) \/ At(s, 1) = ".")
   THEN [T |-> a.T, mainlbl |-> a.mainlbl, more |-> a.more, lbl |-> NoLabel,
         p |-> 1, errs |-> << >>, fatal |-> FALSE, wild |-> FALSE]
   ELSE
   LET local == At(s, 1) = "."
       n == ScanName(s, IF local THEN 2 ELSE 1, << >>)
       e1 == IF local /\ a.mainlbl = NoLabel
             THEN << "local label without main label" >> ELSE << >>
       master == IF local THEN a.mainlbl ELSE NoLabel
       found == find_label(a.T, master, n.id)
       p == IF At(s, n.p) = ":" THEN n.p + 1 ELSE n.p
   IN IF found # NoLabel
      THEN LET l == Slot(a.T.tlabel, found)
               moved == ~LabelDuplicated(a.pass) /\ LabelMoved(l, a.pc)
           IN [T |-> IF moved
                     THEN [a.T EXCEPT !.tlabel = SetSlot(@, found, [l EXCEPT !.value = a.pc])]
                     ELSE a.T,
               mainlbl |-> IF local THEN a.mainlbl ELSE found,
               more |-> a.more \/ moved,
               lbl |-> found, p |-> p,
               errs |-> IF LabelDuplicated(a.pass) THEN Append(e1, "duplicated label")
                        ELSE e1,
               fatal |-> FALSE, wild |-> FALSE]
      ELSE IF labels_full(a.T)
      THEN [T |-> a.T, mainlbl |-> a.mainlbl, more |-> TRUE, lbl |-> NoLabel,
            p |-> p, errs |-> e1, fatal |-> TRUE, wild |-> FALSE]
      ELSE LET r == add_label(a.T, master, n.id, a.pc)
           IN [T |-> r.T,
               mainlbl |-> IF local THEN a.mainlbl ELSE r.lbl,
               more |-> TRUE,
               lbl |-> r.lbl, p |-> p,
               errs |-> IF a.out THEN Append(e1, "undefined label on last pass !") ELSE e1,
               fatal |-> FALSE, wild |-> r.wild]

\* a line that ends early: "continue" or "goto next" (nothing emitted, pc unchanged)
Skipped(T, errs, dz) ==
   [T |-> T, errs |-> errs, skip |-> TRUE, bytes |-> 0, code |-> << >>, org |-> FALSE,
    space |-> 0, p |-> 0, dz |-> dz]

\* a line that reaches "print line"
Body(T, errs, dz, bytes, code, org, space, p) ==
   [T |-> T, errs |-> errs, skip |-> FALSE, bytes |-> bytes, code |-> code, org |-> org,
    space |-> space, p |-> p, dz |-> dz]

\* the operand context of expr: c = [T, mainlbl, allow_undef, pc]
ExprContext(a, allow_undef) ==
   [T |-> a.T, mainlbl |-> a.mainlbl, allow_undef |-> allow_undef, pc |-> a.pc]

\* the flags of the labels that the expressions of the line referred to
UseLabels(T, used) == [T EXCEPT !.tlabel = MarkUsed(@, used)]

\* .ORG, .EQU, .ZERO and .SPACE: id is the directive, vp what expr returned for
\* its operand, T1 the labels after it
directive_value(a, id, lbl, vp, T1) ==
   IF vp.p = 0 THEN Skipped(T1, vp.errs, vp.dz)
   ELSE IF id = << "O", "R", "G" >>
   THEN Body(T1, vp.errs, vp.dz, Sub32(vp.v, a.pc), << >>, TRUE, 0, vp.p)
   ELSE IF id = << "E", "Q", "U" >>
   THEN IF lbl = NoLabel
        THEN Skipped(T1, Append(vp.errs, ".EQU without label"), vp.dz)
        ELSE Body([T1 EXCEPT !.tlabel =
                      SetSlot(@, lbl,
                              [Slot(@, lbl) EXCEPT
                                 !.value = vp.v,
                                 !.flags = BitOp("|", @, LABEL_USED + LABEL_EQU, 8)])],
                  vp.errs, vp.dz, 0, << >>, FALSE, 0, vp.p)
   ELSE IF id = << "Z", "E", "R", "O" >>
   THEN IF ULt(CodeSize, vp.v)
        THEN Skipped(T1, Append(vp.errs, ".ZERO size overflow"), vp.dz)
        ELSE Body(T1, vp.errs, vp.dz, vp.v, [i \in 1..vp.v |-> 0], FALSE, 0, vp.p)
   ELSE Body(T1, vp.errs, vp.dz, vp.v, << >>, FALSE, vp.v, vp.p)

\* .BYTE and .WORD: r is what the loop over the list returned, T2 the labels
\* after it
directive_list(r, T2) ==
   IF r.next THEN Skipped(T2, r.errs, r.dz)
   ELSE Body(T2, r.errs, r.dz, Len(r.code), r.code, FALSE, 0, r.p)

\* the list of .BYTE or .WORD as the loop over it returned it
directive_bytes(a, r) == directive_list(r, UseLabels(a.T, r.used))

\* the operand of .ORG, .EQU, .ZERO or .SPACE as expr returned it
directive_operand(a, id, lbl, vp) ==
   directive_value(a, id, lbl, vp, UseLabels(a.T, vp.used))

\* the state of the loop over a list that begins at q
ListAt(q) ==
   [p |-> q, code |-> << >>, errs |-> << >>, used |-> {}, dz |-> FALSE, next |-> FALSE]

\* the directive id, its operand at q (blanks skipped)
directive_at(a, s, id, q, lbl) ==
   IF id \in { << "O", "R", "G" >>, << "E", "Q", "U" >>, << "Z", "E", "R", "O" >>,
               << "S", "P", "A", "C", "E" >> }
   THEN directive_operand(a, id, lbl,
                          expr(ExprContext(a, DirectiveAllowUndef(a.out)), s, q))
   ELSE IF id = << "B", "Y", "T", "E" >>
   THEN directive_bytes(a, byteLoop(ExprContext(a, OperandAllowUndef(a.out)), s, a.out,
                                    ListAt(q)))
   ELSE IF id = << "W", "O", "R", "D" >>
   THEN directive_bytes(a, wordLoop(ExprContext(a, OperandAllowUndef(a.out)), s, a.out,
                                    ListAt(q)))
   ELSE Skipped(a.T, << "unknown directive" >>, FALSE)

\* the name of the directive as the scan returned it
directive_named(a, s, id, lbl) == directive_at(a, s, id.id, SkipBlanks(s, id.p), lbl)

\* "directive".  p is at the '.'; lbl is the label of the line
assemble_directive(a, s, p, lbl) ==
   directive_named(a, s, ScanAlpha(s, p + 1, << >>), lbl)

\* the instruction of template te encoded: enc is what the encoder returned
opcode_encoded(s, args, T1, enc) ==
   Body(T1, args.errs \o enc.errs, args.dz, Len(enc.code), enc.code, FALSE, 0,
        SkipBlanks(s, args.p))

\* the arguments matched against the templates: te is the template found, or 0
opcode_matched(a, s, args, T1, te) ==
   IF te = 0
   THEN Skipped(T1, Append(args.errs, "unknown combination of opcode and args"), args.dz)
   ELSE opcode_encoded(s, args, T1,
                       encode(tmatch[te].kind, tmatch[te].word, args.va, a.pc, a.out))

\* the arguments of op as the loop over them returned them
opcode_args(a, s, op, args) ==
   IF args.next THEN Skipped(UseLabels(a.T, args.used), args.errs, args.dz)
   ELSE opcode_matched(a, s, args, UseLabels(a.T, args.used), match(op, args.na, args.va))

\* the mnemonic looked up: op is the opcode found, or "", p the position after it
opcode_named(a, s, op, p) ==
   IF op = "" THEN Skipped(a.T, << "unknown opcode" >>, FALSE)
   ELSE opcode_args(a, s, op,
                    argsLoop(ExprContext(a, OperandAllowUndef(a.out)), s,
                             [p |-> p, na |-> 0, sep |-> FALSE,
                              va |-> << NoArg, NoArg, NoArg >>, errs |-> << >>,
                              used |-> {}, dz |-> FALSE, next |-> FALSE]))

\* the mnemonic as the scan returned it
opcode_scanned(a, s, id) == opcode_named(a, s, op_find(id.id), id.p)

\* "opcode".  p is at the first letter of the mnemonic
assemble_opcode(a, s, p) == opcode_scanned(a, s, ScanAlnum(s, p, << >>))

\* the line after its label (l) and its directive or opcode (b)
line_result(a, s, l, b) ==
   [T |-> b.T, mainlbl |-> l.mainlbl, more |-> l.more,
    pc |-> IF b.skip THEN a.pc ELSE Add32(a.pc, b.bytes),
    errs |-> l.errs \o b.errs, fatal |-> FALSE, skip |-> b.skip,
    emit |-> ~b.skip /\ a.out /\ ~b.org /\ b.bytes # 0 /\ b.space = 0,
    code |-> b.code,
    extra |-> ~b.skip /\ At(s, b.p) \notin {NUL, ";", "#"},
    dz |-> b.dz, wild |-> l.wild]

\* the line after its label, at p (blanks skipped): a1 is a with the labels, the
\* main label and the flag as the label handling left them
line_body(a, s, l, a1, p) ==
   line_result(a, s, l,
               IF At(s, p) = "." THEN assemble_directive(a1, s, p, l.lbl)
               ELSE IF isalpha(At(s, p)) THEN assemble_opcode(a1, s, p)
               ELSE Body(a1.T, << >>, FALSE, 0, << >>, FALSE, 0, p))

\* the line after its label: l is what the label handling returned
line_labelled(a, s, l) ==
   IF l.fatal
   THEN [T |-> a.T, mainlbl |-> a.mainlbl, more |-> l.more, pc |-> a.pc,
         errs |-> l.errs, fatal |-> TRUE, skip |-> TRUE, emit |-> FALSE,
         code |-> << >>, extra |-> FALSE, dz |-> FALSE, wild |-> FALSE]
   ELSE line_body(a, s, l, [a EXCEPT !.T = l.T, !.mainlbl = l.mainlbl, !.more = l.more],
                  SkipBlanks(s, l.p))

\* one line of assemble, up to "output".  a = [T, mainlbl, pc, more, pass, out];
\* the result is [T, mainlbl, more, pc, errs, fatal, skip, emit, code, extra, dz,
\* wild]: errs are the messages before "output", extra is the message after it
assemble_line(a, s) == line_labelled(a, s, assemble_label(a, s))

(***************************************************************************)
(* Output image (src/eonasm.c, "output image", and fmt's %b and %w)        *)
(*                                                                         *)
(* The output file is the sequence of its text lines, each the sequence    *)
(* of its characters without the newline.  E = [line, pending, basepc,     *)
(* outpc, ofile].                                                          *)
(***************************************************************************)
hdigit ==
   << "0", "1", "2", "3", "4", "5", "6", "7", "8", "9", "A", "B", "C", "D", "E", "F" >>

\* %b : hex byte, 2 digits
fmt_b(n) == << hdigit[((n \div 16) % 16) + 1], hdigit[(n % 16) + 1] >>

\* %w : hex word, 4 digits
fmt_w(n) ==
   << hdigit[((n \div 4096) % 16) + 1], hdigit[((n \div 256) % 16) + 1],
      hdigit[((n \div 16) % 16) + 1], hdigit[(n % 16) + 1] >>

\* the text of the for loop of emit_flush: %b of each pending byte
flush_text(ln, pending) ==
   [k \in 1..(2 * pending) |-> fmt_b(ln[(k - 1) \div 2])[((k - 1) % 2) + 1]]

RECURSIVE flush_crc(_, _, _)
\* crc += byte for the bytes lo .. hi-1, as a uint8_t: what they add to crc.
\* uint8_t addition is associative, so the bytes are summed in halves.
flush_crc(ln, lo, hi) ==
   IF hi <= lo THEN 0
   ELSE IF hi = lo + 1 THEN U8(ln[lo])
   ELSE LET mid == (lo + hi) \div 2
        IN U8(flush_crc(ln, lo, mid) + flush_crc(ln, mid, hi))

\* a variant of crc_init: the high byte of the address left out of the sum
crc_init_low(pending, basepc) == U8(pending + basepc)

\* uint8_t crc = pending + (basepc >> 8) + basepc
crc_init(pending, basepc) == U8(pending + basepc \div 256 + basepc)

emit_flush(E) ==
   IF E.pending # 0
   THEN LET head == << ":" >> \o fmt_b(E.pending) \o fmt_w(E.basepc) \o << "0", "0" >>
            crc == U8(crc_init(E.pending, E.basepc) + flush_crc(E.line, 0, E.pending))
        IN [E EXCEPT !.ofile = Append(@, head \o flush_text(E.line, E.pending)
                                            \o fmt_b((0 - crc) % 256)),
                     !.pending = 0]
   ELSE E

\* a variant of emit_break: no flush for an address that is not the next one
emit_break_full(pending, at, outpc) == pending >= OUTPUT_LINE_BYTES

\* the test of emit: flush before this byte
emit_break(pending, at, outpc) == pending >= OUTPUT_LINE_BYTES \/ at # outpc

\* a variant of emit_restart: basepc left as it was
emit_restart_out(E, at) == [E EXCEPT !.outpc = at]

\* outpc = basepc = at
emit_restart(E, at) == [E EXCEPT !.outpc = at, !.basepc = at]

emit(E, at, byte) ==
   LET F == IF emit_break(E.pending, at, E.outpc)
            THEN emit_restart(emit_flush(E), at)
            ELSE E
   IN [F EXCEPT !.line[F.pending] = byte, !.pending = F.pending + 1,
                !.outpc = F.outpc + 1]

emit_done(E) ==
   [emit_flush(E) EXCEPT
      !.ofile = Append(@, << ":", "0", "0", "0", "0", "0", "0", "0", "1", "F", "F" >>)]

RECURSIVE emit_range(_, _, _, _, _)
\* emit (pc + i, code[i]) for i = lo .. hi-1 in this order: the first half of
\* the range gives the emitter F, from which the second half goes on
emit_range(E, pc, code, lo, hi) ==
   IF hi <= lo THEN E
   ELSE IF hi = lo + 1 THEN emit(E, U16(Add32(pc, lo)), code[lo + 1])
   ELSE LET mid == (lo + hi) \div 2
        IN Then(emit_range(E, pc, code, lo, mid),
                LAMBDA F : emit_range(F, pc, code, mid, hi))

\* for (unsigned i = 0; i < bytes; i++) emit (pc + i, code[i])
emit_code(E, pc, code) == emit_range(E, pc, code, 0, Len(code))

(***************************************************************************)
(* Inputs: source files as text.  A file is the sequence of its lines and  *)
(* a line is the sequence of its characters, the newline included.         *)
(***************************************************************************)
\* X:
LineLabelX ==
   << "X", ":", NL >>

\* Y:
LineLabelY ==
   << "Y", ":", NL >>

\*  LI R1, X - 4
LineLiXm4 ==
   << " ", "L", "I", " ", "R", "1", ",", " ", "X", " ", "-", " ", "4", NL >>

\* X .EQU $$
LineEquPc ==
   << "X", " ", ".", "E", "Q", "U", " ", "$", "$", NL >>

\* X .EQU X + 1
LineEquSelf ==
   << "X", " ", ".", "E", "Q", "U", " ", "X", " ", "+", " ", "1", NL >>

\*  .ORG Y
LineOrgY ==
   << " ", ".", "O", "R", "G", " ", "Y", NL >>

\*  .ZERO 16
LineZero16 ==
   << " ", ".", "Z", "E", "R", "O", " ", "1", "6", NL >>

\*  .SPACE 2
LineSpace2 ==
   << " ", ".", "S", "P", "A", "C", "E", " ", "2", NL >>

\*  BRA 70000
LineBraFar ==
   << " ", "B", "R", "A", " ", "7", "0", "0", "0", "0", NL >>

\*  NOP )
LineNopExtra ==
   << " ", "N", "O", "P", " ", ")", NL >>

\* .L: NOP
LineLocalNop ==
   << ".", "L", ":", " ", "N", "O", "P", NL >>

\*  .ZERO 200
LineZero200 ==
   << " ", ".", "Z", "E", "R", "O", " ", "2", "0", "0", NL >>

\*  .ORG U+U+U
LineOrgUUU ==
   << " ", ".", "O", "R", "G", " ", "U", "+", "U", "+", "U", NL >>

\* A: ADD R1, R1, 1
LineAdd ==
   << "A", ":", " ", "A", "D", "D", " ", "R", "1", ",", " ", "R", "1", ",", " ", "1", NL >>

\* B: BNE R1, R0, A
LineBne ==
   << "B", ":", " ", "B", "N", "E", " ", "R", "1", ",", " ", "R", "0", ",", " ", "A", NL >>

\*  NOP
LineNop ==
   << " ", "N", "O", "P", NL >>

\*  .BYTE Y, 300
LineByteY ==
   << " ", ".", "B", "Y", "T", "E", " ", "Y", ",", " ", "3", "0", "0", NL >>

DriverLines ==
   { LineLabelX, LineLabelY, LineLiXm4, LineEquPc, LineEquSelf, LineOrgY, LineZero16, LineSpace2, LineBraFar, LineNopExtra, LineLocalNop, LineZero200, LineOrgUUU, LineByteY }

\* the number of lines of a source file
MaxLines == 3

RECURSIVE SeqsOf(_, _)
\* the sequences of exactly n elements of S
SeqsOf(S, n) ==
   IF n = 0 THEN { << >> }
   ELSE { Append(q, x) : q \in SeqsOf(S, n - 1), x \in S }

\* the sequences of 1 .. n elements of S
SeqsUpTo(S, n) == UNION { SeqsOf(S, k) : k \in 1..n }

\* one source file of up to MaxLines lines, or two source files of one line
DriverInputs ==
   { << f >> : f \in SeqsUpTo(DriverLines, MaxLines) }
      \cup { << f, g >> : f \in SeqsOf(DriverLines, 1), g \in SeqsOf(DriverLines, 1) }

RECURSIVE Dec(_)
\* the decimal digits of n >= 0
Dec(n) ==
   IF n < 10 THEN << Chr(48 + n) >> ELSE Append(Dec(n \div 10), Chr(48 + (n % 10)))

\* "-n" for n < 0
Number(n) == IF n < 0 THEN << "-" >> \o Dec(-n) ELSE Dec(n)

\* BRA <t>
BraLine(t) == << " ", "B", "R", "A", " " >> \o Number(t) \o << NL >>

\* the half-word offsets at and around the limits of a signed 16-bit field
EdgeOffsets == { 32767, 32768, -32767, -32768, -32769 }

\* the program counters of a BRA after zero, one or two 2-byte instructions
EdgePcs == { 0, 2, 4 }

\* targets that give the edge offsets at the edge program counters, even and odd
BraTargets ==
   { p + 4 + 2 * o : p \in EdgePcs, o \in EdgeOffsets }
      \cup { 4 + 2 * 32767 + 1, 4 - 2 * 32768 - 1 }

EncLines ==
   { LineAdd, LineBne, LineNop } \cup { BraLine(t) : t \in BraTargets }

\* the number of lines of a source file of instructions
MaxEncLines == 2

EncInputs == { << f >> : f \in SeqsUpTo(EncLines, MaxEncLines) }

\* the registers of the LI lines: R1, R10 and SP
LiRegs == { vreg[2], vreg[3], vreg[16] }

\* the values of the LI lines: 0, 1, and values at and around the limits of a
\* signed 16-bit field and of 32 bits
LiValues == { 0, 1, 2, -1, 32767, 32768, -32768, -32769, 305419896, -MaxInt32 }

\* LI <reg>, <n>
LiLine(reg, n) ==
   << " ", "L", "I", " " >> \o reg.id \o << ",", " " >> \o Number(n) \o << NL >>

LiLines == { LiLine(reg, n) : reg \in LiRegs, n \in LiValues }

\* the number of lines of a source file of LI instructions
MaxLiLines == 2

LiInputs == { << f >> : f \in SeqsUpTo(LiLines, MaxLiLines) }

\* a name of n characters: letters A, then the characters of tail
LongName(n, tail) ==
   [i \in 1..n |-> IF i <= n - Len(tail) THEN "A" ELSE tail[i - (n - Len(tail))]]

\* <name>:
LabelLine(name) == name \o << ":", NL >>

\* a label of 23 characters, the last one B
LineLong23 == LabelLine(LongName(23, << "B" >>))

\* a label of 31 characters, the last one B
LineLong31 == LabelLine(LongName(31, << "B" >>))

\* a local label of 27 characters, the last five 12345, and a NOP
LineLocalLong ==
   << "." >> \o LongName(27, << "1", "2", "3", "4", "5" >>) \o << ":", " ", "N", "O", "P", NL >>

\*  LI R1, Y
LineLiY ==
   << " ", "L", "I", " ", "R", "1", ",", " ", "Y", NL >>

\*  LI R1, .L
LineLiL ==
   << " ", "L", "I", " ", "R", "1", ",", " ", ".", "L", NL >>

LabelLines ==
   { LineLong23, LineLong31, LineLocalLong, LineLocalNop, LineLabelY, LineLiY, LineLiL }

\* the number of lines of a source file of labels
MaxLabelLines == 3

LabelInputs == { << f >> : f \in SeqsUpTo(LabelLines, MaxLabelLines) }

\* X .EQU 14 + X * X
LineEquSquare ==
   << "X", " ", ".", "E", "Q", "U", " ", "1", "4", " ", "+", " ", "X", " ", "*", " ", "X", NL >>

\*  .WORD Y
LineWordY ==
   << " ", ".", "W", "O", "R", "D", " ", "Y", NL >>

\*  LI R1, X
LineLiX ==
   << " ", "L", "I", " ", "R", "1", ",", " ", "X", NL >>

StableLines ==
   { LineEquSquare, LineEquSelf, LineWordY, LineLiX, LineLabelY, LineNop }

\* the number of lines of a source file with an .EQU that refers to its own label
MaxStableLines == 4

StableInputs == { << f >> : f \in SeqsUpTo(StableLines, MaxStableLines) }

(***************************************************************************)
(* State                                                                   *)
(***************************************************************************)
VARIABLES
   files,      \* argv[1 ..]: the source files, as text
   phase,      \* where main is: "loop" (the test of the for loop), "files" (the
               \* loop over the source files), "lines" (inside assemble),
               \* "done" (main returned), "exit" (exit (1) was called)
   pass,       \* the pass counter of main
   another,    \* main: another pass follows
   last,       \* main: this pass is the last one (assemble's out)
   snap,       \* history: the label table at the end of the pass before
   more,       \* main: more, assemble's *pmore
   errcount,   \* the error counter
   stderr,     \* the messages written by error (), in order
   fileno,     \* main's i: the index of the source file
   lineno,     \* assemble's lineno: the lines of the file read so far
   mainlbl,    \* assemble's mainlbl
   pc,         \* the program counter
   tlabel,     \* the label table
   nlabel,     \* the number of global labels
   lstack,     \* the top of the stack of local labels
   line,       \* the bytes of the pending output record
   pending,    \* the number of pending bytes
   basepc,     \* the address of the first pending byte
   outpc,      \* the address after the last pending byte
   ofile,      \* the text lines of the output file
   emitted,    \* history: the calls emit (at, byte) since the output file was created
   etoks,      \* the expression under evaluation: its tokens,
   esep,       \* whether a blank stands before a negative number,
   eres        \* and the result of expr on it

vars ==
   << files, phase, pass, another, last, snap, more, errcount, stderr, fileno, lineno,
      mainlbl, pc, tlabel, nlabel, lstack, line, pending, basepc, outpc, ofile,
      emitted, etoks, esep, eres >>

mainVars == << pass, another, last, snap >>

labelVars == << tlabel, nlabel, lstack >>

emitVars == << line, pending, basepc, outpc, ofile, emitted >>

exprVars == << etoks, esep, eres >>

\* the pass counter is held up to this value; main only tests pass for 0
MaxPass == 4

\* the emitter, as a record
EmitState ==
   [line |-> line, pending |-> pending, basepc |-> basepc, outpc |-> outpc,
    ofile |-> ofile]

SetEmit(E) ==
   /\ line' = E.line
   /\ pending' = E.pending
   /\ basepc' = E.basepc
   /\ outpc' = E.outpc
   /\ ofile' = E.ofile

\* the statics and the locals of main before the first pass
Fresh ==
   /\ pass = 0
   /\ another = TRUE
   /\ last = FALSE
   /\ snap = << >>
   /\ more = FALSE
   /\ errcount = 0
   /\ stderr = << >>
   /\ fileno = 0
   /\ lineno = 0
   /\ mainlbl = NoLabel
   /\ pc = 0
   /\ tlabel = << >>
   /\ nlabel = 0
   /\ lstack = MAX_LABELS
   /\ line = [i \in 0..(OUTPUT_LINE_BYTES - 1) |-> 0]
   /\ pending = 0
   /\ basepc = 0
   /\ outpc = 0
   /\ ofile = << >>
   /\ emitted = << >>

\* the state of a process that has just started, given its source files
Start(argv) ==
   /\ files = argv
   /\ phase = "loop"
   /\ Fresh

NoExpr ==
   /\ etoks = << >>
   /\ esep = FALSE
   /\ eres = [done |-> FALSE, p |-> 0, v |-> 0, errs |-> << >>, dz |-> FALSE, crash |-> FALSE]

Init == (\E argv \in DriverInputs : Start(argv)) /\ NoExpr

InitEnc == (\E argv \in EncInputs : Start(argv)) /\ NoExpr

(***************************************************************************)
(* main (src/eonasm.c, "entry point")                                      *)
(***************************************************************************)
\* a variant of LoopTest: the error count not tested
LoopTestAnother == another

\* the test of the for loop
LoopTest == errcount = 0 /\ another

\* the head of the loop body: output_to (argv[0]) when pass # 0, pc = 0, more = false
PassBegin ==
   /\ phase = "loop"
   /\ LoopTest
   /\ phase' = "files"
   /\ IF pass # 0
      THEN ofile' = << >> /\ emitted' = << >>
      ELSE UNCHANGED << ofile, emitted >>
   /\ pc' = 0
   /\ more' = FALSE
   /\ fileno' = 1
   /\ UNCHANGED << files, mainVars, errcount, stderr, lineno, mainlbl, labelVars,
                   line, pending, basepc, outpc, exprVars >>

\* open (source), and the entry of assemble: lineno = 0, mainlbl = NULL
AssembleBegin ==
   /\ phase = "files"
   /\ fileno <= Len(files)
   /\ phase' = "lines"
   /\ lineno' = 0
   /\ mainlbl' = NoLabel
   /\ UNCHANGED << files, mainVars, more, errcount, stderr, fileno, pc, labelVars,
                   emitVars, exprVars >>

\* error (lineno, msg) for each message: the lines written and the count
Messages(errs, n) ==
   [i \in 1..n |-> [source |-> fileno, lineno |-> lineno + 1, msg |-> errs[i], out |-> last]]

\* one round of the while loop of assemble: readline gave a line
AssembleLine ==
   /\ phase = "lines"
   /\ lineno < Len(files[fileno])
   /\ \E r \in { assemble_line([T |-> [tlabel |-> tlabel, nlabel |-> nlabel,
                                       lstack |-> lstack],
                                 mainlbl |-> mainlbl, pc |-> pc, more |-> more,
                                 pass |-> pass, out |-> last],
                                files[fileno][lineno + 1]) } :
      LET room == MAX_ERRORS - errcount
          E1 == IF r.emit THEN emit_code(EmitState, pc, r.code) ELSE EmitState
          log == IF r.emit
                 THEN emitted \o [i \in 1..Len(r.code) |->
                                    [at |-> U16(Add32(pc, i - 1)), byte |-> r.code[i]]]
                 ELSE emitted
          all == IF r.extra THEN Append(r.errs, "extra characters at end") ELSE r.errs
      IN \E crash \in (IF r.dz \/ r.wild THEN {TRUE, FALSE} ELSE {FALSE}) :
         IF crash
         THEN \* a division by zero in expr, or a write after the end of tlabel,
              \* ended the process
              /\ phase' = "exit"
              /\ UNCHANGED << more, errcount, stderr, lineno, mainlbl, pc, labelVars,
                              emitVars >>
         ELSE IF Len(r.errs) >= room
         THEN \* error () called exit (1) before "output"
              /\ phase' = "exit"
              /\ errcount' = MAX_ERRORS
              /\ stderr' = stderr \o Messages(r.errs, room)
              /\ UNCHANGED << more, lineno, mainlbl, pc, labelVars, emitVars >>
         ELSE IF r.fatal
         THEN \* add_label: too many labels, exit (1)
              /\ phase' = "exit"
              /\ errcount' = errcount + Len(r.errs)
              /\ stderr' = stderr \o Messages(r.errs, Len(r.errs))
              /\ UNCHANGED << more, lineno, mainlbl, pc, labelVars, emitVars >>
         ELSE /\ phase' = IF Len(all) >= room THEN "exit" ELSE "lines"
              /\ errcount' = errcount + Len(all)
              /\ stderr' = stderr \o Messages(all, Len(all))
              /\ more' = r.more
              /\ lineno' = lineno + 1
              /\ mainlbl' = r.mainlbl
              /\ pc' = r.pc
              /\ tlabel' = r.T.tlabel
              /\ nlabel' = r.T.nlabel
              /\ lstack' = r.T.lstack
              /\ SetEmit(E1)
              /\ emitted' = log
   /\ UNCHANGED << files, mainVars, fileno, exprVars >>

\* readline gave no line: assemble returns pc, main closes the file
AssembleEnd ==
   /\ phase = "lines"
   /\ lineno >= Len(files[fileno])
   /\ phase' = "files"
   /\ fileno' = fileno + 1
   /\ UNCHANGED << files, mainVars, more, errcount, stderr, lineno, mainlbl, pc,
                   labelVars, emitVars, exprVars >>

\* after the last source file: emit_done when last, the flags logic, ++pass
PassEnd ==
   /\ phase = "files"
   /\ fileno > Len(files)
   /\ phase' = "loop"
   /\ IF last THEN SetEmit(emit_done(EmitState)) ELSE UNCHANGED << line, pending, basepc, outpc, ofile >>
   /\ another' = IF last THEN FALSE ELSE another
   /\ last' = IF last THEN last ELSE ~more
   /\ pass' = IF pass < MaxPass THEN pass + 1 ELSE pass
   /\ snap' = tlabel
   /\ UNCHANGED << files, more, errcount, stderr, fileno, lineno, mainlbl, pc,
                   labelVars, emitted, exprVars >>

\* the loop test fails: the statistics, the error summary, return
MainReturn ==
   /\ phase = "loop"
   /\ ~LoopTest
   /\ phase' = "done"
   /\ UNCHANGED << files, mainVars, more, errcount, stderr, fileno, lineno, mainlbl, pc,
                   labelVars, emitVars, exprVars >>

Next ==
   \/ PassBegin
   \/ AssembleBegin
   \/ AssembleLine
   \/ AssembleEnd
   \/ PassEnd
   \/ MainReturn

Spec == Init /\ [][Next]_vars

\* the lines of the source files whose passes are followed to their end
FairLines == { LineLiXm4, LineLabelX, LineEquPc, LineNop }

InitFair ==
   (\E argv \in { << f >> : f \in SeqsUpTo(FairLines, MaxLines) } : Start(argv)) /\ NoExpr

\* the position of the process: where main is, and the line that assemble is at
position == << phase, lineno >>

\* the process has neither returned from main nor called exit
Running == phase \notin {"done", "exit"}

\* a step of a running process; every step of Next moves the position
Advance ==
   /\ Running
   /\ phase' \in {"loop", "files", "lines", "done", "exit"}
   /\ lineno' \in 0..MaxLines

\* main is sequential code: a running process goes on running
FairSpec == InitFair /\ [][Next]_vars /\ WF_position(Advance)

\* the same program on source files of instructions
SpecEnc == InitEnc /\ [][Next]_vars

\* the assembler on one source file with labels of more than 22 characters
InitLabel == (\E argv \in LabelInputs : Start(argv)) /\ NoExpr

SpecLabel == InitLabel /\ [][Next]_vars

\* the assembler on one source file of LI instructions
InitLi == (\E argv \in LiInputs : Start(argv)) /\ NoExpr

SpecLi == InitLi /\ [][Next]_vars

\* the assembler on one source file with an .EQU that refers to its own label
InitStable == (\E argv \in StableInputs : Start(argv)) /\ NoExpr

SpecStable == InitStable /\ [][Next]_vars

(***************************************************************************)
(* expr alone: one call of expr (lineno, NULL, false, 0, p) on the text of *)
(* an expression, with an empty label table.                               *)
(***************************************************************************)
\* a token of an expression: its text, what it is, and its value
Tok(text, kind, val) == [text |-> text, kind |-> kind, val |-> val]

\* the numbers of the flat expressions
ExprValues ==
   { Tok(<< "1", "0" >>, "value", 10), Tok(<< "3" >>, "value", 3), Tok(<< "2" >>, "value", 2) }

\* the numbers of the chains: the products of $FFFF pass 2^32
ChainValues ==
   { Tok(<< "2" >>, "value", 2), Tok(<< "7" >>, "value", 7),
     Tok(<< "$", "F", "F", "F", "F" >>, "value", 65535) }

ExprOps == { Tok(<< o >>, "op", 0) : o \in {"+", "-", "*", "/", "%", "&", "|"} }

\* the tokens of the arbitrary sequences: 'a is a character without its closing quote
AnyTokens ==
   { Tok(<< "5" >>, "value", 5), Tok(<< "6" >>, "value", 6),
     Tok(<< "-", "3" >>, "value", -3), Tok(<< "'", "a", "'" >>, "value", 97),
     Tok(<< "'", "a" >>, "bad", 0),
     Tok(<< "-" >>, "op", 0), Tok(<< "*" >>, "op", 0),
     Tok(<< "(" >>, "open", 0), Tok(<< ")" >>, "close", 0) }

\* the number of values of a flat expression
MaxValues == 3

\* the number of values of a chain  v op v op ... v
MaxChain == 9

\* the number of tokens of an arbitrary sequence
MaxToks == 4

RECURSIVE FlatExprs(_)
\* the expressions  v1 op1 v2 ... vn
FlatExprs(n) ==
   IF n = 1 THEN { << v >> : v \in ExprValues }
   ELSE { e \o << o, v >> : e \in FlatExprs(n - 1), o \in ExprOps, v \in ExprValues }

\* v op v op ... v, n values
Chain(v, o, n) == [i \in 1..(2 * n - 1) |-> IF i % 2 = 1 THEN v ELSE o]

ExprInputs ==
   UNION { FlatExprs(n) : n \in 1..MaxValues }
      \cup { Chain(v, o, n) : v \in ChainValues, o \in ExprOps, n \in 2..MaxChain }
      \cup { << >> }
      \cup SeqsUpTo(AnyTokens, MaxToks)

RECURSIVE JoinToks(_, _, _)
\* the text of the tokens from the i-th on: a blank between two tokens, but
\* none before a negative number unless sep
JoinToks(toks, sep, i) ==
   IF i > Len(toks) THEN << >>
   ELSE (IF i = 1 \/ (~sep /\ toks[i].text[1] = "-" /\ toks[i].kind = "value")
         THEN << >> ELSE << " " >>)
        \o toks[i].text \o JoinToks(toks, sep, i + 1)

InitExpr ==
   /\ files = << >>
   /\ phase = "expr"
   /\ Fresh
   /\ etoks \in ExprInputs
   /\ esep \in BOOLEAN
   /\ eres = [done |-> FALSE, p |-> 0, v |-> 0, errs |-> << >>, dz |-> FALSE, crash |-> FALSE]

\* vp = expr (lineno, NULL, false, 0, text); a division by zero may end the process
EvalExpr ==
   /\ phase = "expr"
   /\ ~eres.done
   /\ \E text \in { JoinToks(etoks, esep, 1) } :
         LET r == expr([T |-> [tlabel |-> tlabel, nlabel |-> nlabel, lstack |-> lstack],
                        mainlbl |-> NoLabel, allow_undef |-> FALSE, pc |-> 0], text, 1)
         IN \E crash \in (IF r.dz THEN {TRUE, FALSE} ELSE {FALSE}) :
               eres' = [done |-> TRUE, p |-> r.p, v |-> r.v, errs |-> r.errs, dz |-> r.dz,
                        crash |-> crash]
   /\ UNCHANGED << files, phase, mainVars, more, errcount, stderr, fileno, lineno, mainlbl,
                   pc, labelVars, emitVars, etoks, esep >>

NextExpr == EvalExpr

ExprSpec == InitExpr /\ [][NextExpr]_vars

(***************************************************************************)
(* The emitter alone: calls of emit (at, byte) and then emit_done ().      *)
(***************************************************************************)
\* the number of calls of emit
MaxEmits == 34

\* the number of calls of emit that are not at the next address
MaxJumps == 1

\* the addresses that emit is called with after a jump
JumpTargets == { 4660, 65520 }

\* the first byte of a stream of bytes
FirstBytes == { 0, 165, 255 }

\* the byte that follows byte b in a stream
NextByte(b) == U8(3 * b + 1)

\* the calls of emit, among those logged, that were not at the next address
Jumps ==
   Cardinality({ i \in 1..Len(emitted) :
                   emitted[i].at # (IF i = 1 THEN 0 ELSE U16(emitted[i - 1].at + 1)) })

InitEmit ==
   /\ files = << >>
   /\ phase = "emit"
   /\ Fresh
   /\ NoExpr

\* emit (at, byte): at the address after the last one, as (uint16_t) (pc + i)
\* gives it, or at another address
Emit ==
   /\ phase = "emit"
   /\ Len(emitted) < MaxEmits
   /\ \E at \in { U16(IF emitted = << >> THEN 0 ELSE emitted[Len(emitted)].at + 1) }
                   \cup (IF Jumps < MaxJumps THEN JumpTargets ELSE {}) :
      \E byte \in (IF emitted = << >> THEN FirstBytes
                   ELSE { NextByte(emitted[Len(emitted)].byte) }) :
         /\ SetEmit(emit(EmitState, at, byte))
         /\ emitted' = Append(emitted, [at |-> at, byte |-> byte])
   /\ UNCHANGED << files, phase, mainVars, more, errcount, stderr, fileno, lineno, mainlbl,
                   pc, labelVars, exprVars >>

\* emit_done ()
EmitDone ==
   /\ phase = "emit"
   /\ SetEmit(emit_done(EmitState))
   /\ phase' = "done"
   /\ UNCHANGED << files, mainVars, more, errcount, stderr, fileno, lineno, mainlbl,
                   pc, labelVars, emitted, exprVars >>

NextEmit ==
   \/ Emit
   \/ EmitDone

EmitSpec == InitEmit /\ [][NextEmit]_vars

(***************************************************************************)
(* Properties of the pass driver                                           *)
(***************************************************************************)
\* C1: every run of the assembler ends, by the return of main or by exit,
\* after finitely many passes: the more flag is not set at the end of every
\* pass for ever.
C1_Terminates == <>(phase \in {"done", "exit"})

\* a step that ends a pass: the flags logic and ++pass
EndsPass == phase = "files" /\ phase' = "loop"

\* a step that begins a pass
BeginsPass == phase = "loop" /\ phase' = "files"

\* C2, as the specification states it: a pass that ends and is not the final
\* one is followed by another pass, which is the final one exactly when more
\* is false; the final pass is followed by none.
C2_AnotherPassAlways ==
   [][/\ (EndsPass /\ ~last) => (errcount' = 0 /\ another' /\ (last' <=> ~more))
      /\ (EndsPass /\ last) => ~(errcount' = 0 /\ another')]_vars

\* C2, as the code has it: a pass begins exactly when the loop test is
\* reached with an error count of 0 and no final pass behind; a pass that
\* ends and is not the final one makes the next pass the final one exactly
\* when more is false, but that next pass is run only if no error has been
\* recorded; the final pass is followed by none.
C2_PassSequence ==
   [][/\ (EndsPass /\ ~last) => (another' /\ (last' <=> ~more))
      /\ (EndsPass /\ last) => ~another'
      /\ BeginsPass => (errcount = 0 /\ another)
      /\ (phase = "loop" /\ errcount = 0 /\ another) => BeginsPass
      /\ (phase = "loop" /\ phase' = "done") => (errcount # 0 \/ ~another)]_vars

\* main has returned after a pass with errors, the final pass not run
C2_StoppedByErrors == phase = "done" /\ errcount > 0 /\ another /\ ofile = << >>

\* the word w occurs in the line s
HasWord(s, w) == \E i \in 1..(Len(s) - Len(w) + 1) : SubSeq(s, i, i + Len(w) - 1) = w

\* the position in s after the first occurrence of the word w
AfterWord(s, w) ==
   (CHOOSE i \in 1..(Len(s) - Len(w) + 1) :
       /\ SubSeq(s, i, i + Len(w) - 1) = w
       /\ \A j \in 1..(i - 1) : SubSeq(s, j, j + Len(w) - 1) # w) + Len(w)

WordEQU == << ".", "E", "Q", "U" >>

\* the slot of the global label that line s begins with, or NoLabel
LineLabel(s) ==
   IF isalpha(At(s, 1))
   THEN find_label([tlabel |-> tlabel, nlabel |-> nlabel, lstack |-> lstack], NoLabel,
                   ScanName(s, 1, << >>).id)
   ELSE NoLabel

\* the value of the operand of the .EQU line s, for the label in slot i, in this state
EquValue(s, i) ==
   expr([T |-> [tlabel |-> tlabel, nlabel |-> nlabel, lstack |-> lstack],
         mainlbl |-> i, allow_undef |-> FALSE, pc |-> pc], s, AfterWord(s, WordEQU)).v

\* the step processes, to its end, the source line s
Processes(s) ==
   /\ phase = "lines" /\ phase' = "lines"
   /\ lineno' = lineno + 1
   /\ s = files[fileno][lineno + 1]

\* C3, as the specification states it: the value of a label that had the
\* flag LABEL_EQU at the end of a pass is the same at the end of the next pass.
C3_EquConstant ==
   [][EndsPass => \A i \in DOMAIN snap :
         HasFlag(snap[i], LABEL_EQU) => Slot(tlabel, i).value = snap[i].value]_vars

\* C3, as the code has it: the value of a label with the flag LABEL_EQU
\* changes only in a step that processes a .EQU line beginning with that
\* label, and every such step leaves in it the value that the operand of the
\* line has in that pass; seeing the label at the start of a line changes
\* nothing.
C3_EquSetByOwnLine ==
   [][\A i \in 0..(nlabel - 1) :
         HasFlag(Slot(tlabel, i), LABEL_EQU) =>
            /\ Slot(tlabel', i).value # Slot(tlabel, i).value =>
                  \E s \in DriverLines :
                     Processes(s) /\ HasWord(s, WordEQU) /\ LineLabel(s) = i
            /\ \A s \in DriverLines :
                  (Processes(s) /\ HasWord(s, WordEQU) /\ LineLabel(s) = i) =>
                     Slot(tlabel', i).value = EquValue(s, i)]_vars

\* the last line of a pass has been processed and a .EQU label does not have
\* the value it had at the end of the pass before
C3_EquChanged ==
   /\ phase = "files"
   /\ fileno > Len(files)
   /\ \E i \in DOMAIN snap :
         HasFlag(snap[i], LABEL_EQU) /\ Slot(tlabel, i).value # snap[i].value

\* the messages of the undefined-label and range diagnostics
Diagnostics ==
   { "undefined label in expr", ".ZERO size overflow", ".BYTE overflow", ".WORD overflow",
     "inmediate out of range", "branch out of range", "memory offset out of range",
     "special register of range" }

\* the line is one of the directives .ORG, .EQU, .ZERO and .SPACE
LayoutLine(s) ==
   \/ HasWord(s, << ".", "O", "R", "G" >>)
   \/ HasWord(s, WordEQU)
   \/ HasWord(s, << ".", "Z", "E", "R", "O" >>)
   \/ HasWord(s, << ".", "S", "P", "A", "C", "E" >>)

\* the source line that the message m was written for
LineOf(m) == files[m.source][m.lineno]

\* C4, as the specification states it: every undefined-label or range
\* diagnostic was recorded on the final pass (out = true).
C4_OnlyOnFinalPass ==
   \A i \in 1..Len(stderr) : stderr[i].msg \in Diagnostics => stderr[i].out

\* C4, as the code has it: an undefined-label or range diagnostic for an
\* instruction or for .BYTE or .WORD was recorded on the final pass; those
\* recorded on another pass are for .ORG, .EQU, .ZERO or .SPACE.
C4_OperandsOnlyOnFinalPass ==
   \A i \in 1..Len(stderr) :
      (stderr[i].msg \in Diagnostics /\ ~stderr[i].out) => LayoutLine(LineOf(stderr[i]))

\* a diagnostic for a directive has been recorded on a pass that is not the
\* final one, after a line with an instruction was processed in that pass
C4_DirectiveBeforeFinalPass ==
   \E i \in 1..Len(stderr) :
      /\ stderr[i].msg \in Diagnostics
      /\ ~stderr[i].out
      /\ LayoutLine(LineOf(stderr[i]))
      /\ \E n \in 1..(stderr[i].lineno - 1) :
            files[stderr[i].source][n] \in { LineLiXm4, LineBraFar, LineByteY }

(***************************************************************************)
(* Properties of the emitter: the records of the output file               *)
(***************************************************************************)
\* the value of a hex digit
HexVal(c) == (CHOOSE d \in 1..16 : hdigit[d] = c) - 1

\* the bytes of a record: the pairs of hex digits after the colon
RecBytes(rec) ==
   [j \in 1..((Len(rec) - 1) \div 2) |-> 16 * HexVal(rec[2 * j]) + HexVal(rec[2 * j + 1])]

RecCount(rec) == RecBytes(rec)[1]

RecAddr(rec) == 256 * RecBytes(rec)[2] + RecBytes(rec)[3]

RecType(rec) == RecBytes(rec)[4]

RecData(rec) == SubSeq(RecBytes(rec), 5, Len(RecBytes(rec)) - 1)

RecCheck(rec) == RecBytes(rec)[Len(RecBytes(rec))]

\* the end-of-file record
EofRecord == << ":", "0", "0", "0", "0", "0", "0", "0", "1", "F", "F" >>

\* a record of type 0 whose byte count is the number of its data bytes, 1..32
DataRecord(rec) ==
   /\ Len(rec) >= 13
   /\ Len(rec) % 2 = 1
   /\ rec[1] = ":"
   /\ \A k \in 2..Len(rec) : \E d \in 1..16 : hdigit[d] = rec[k]
   /\ RecType(rec) = 0
   /\ RecCount(rec) = Len(RecData(rec))
   /\ RecCount(rec) \in 1..OUTPUT_LINE_BYTES

\* the bytes of a record with their addresses: the k-th at the start address + k - 1
RecLog(rec) ==
   [k \in 1..RecCount(rec) |-> [at |-> RecAddr(rec) + k - 1, byte |-> RecData(rec)[k]]]

RECURSIVE LogOf(_, _)
\* the bytes, with their addresses, of the records from the i-th on
LogOf(recs, i) ==
   IF i > Len(recs) THEN << >> ELSE RecLog(recs[i]) \o LogOf(recs, i + 1)

RECURSIVE SumSeq(_, _)
\* the sum of the elements of q from the i-th on
SumSeq(q, i) == IF i > Len(q) THEN 0 ELSE q[i] + SumSeq(q, i + 1)

\* emit_done has written the end-of-file record
Closed == ofile # << >> /\ ofile[Len(ofile)] = EofRecord

\* the records before the end-of-file record
DataRecords == SubSeq(ofile, 1, Len(ofile) - 1)

\* C5: in a run that has reached emit_done, the data records, read in order,
\* hold exactly the bytes given to emit on the final pass, each once, the
\* k-th byte of a record at the record's start address + k - 1; no record
\* has more than 32 bytes; and a record is followed by another only where
\* emit flushes: it held 32 bytes or the next address was not outpc.
C5_EveryByteInOneRecord ==
   Closed =>
      /\ \A i \in 1..Len(DataRecords) : DataRecord(DataRecords[i])
      /\ LogOf(DataRecords, 1) = emitted
      /\ \A i \in 1..(Len(DataRecords) - 1) :
            \/ RecCount(DataRecords[i]) = OUTPUT_LINE_BYTES
            \/ RecAddr(DataRecords[i + 1]) # RecAddr(DataRecords[i]) + RecCount(DataRecords[i])

\* the assembler has finished an output file where a record of 32 bytes is
\* followed by the record with the bytes at the next addresses
C5_FullRecordFlushed ==
   /\ Closed
   /\ phase = "done"
   /\ files # << >>
   /\ \E i \in 1..(Len(DataRecords) - 1) :
         /\ RecCount(DataRecords[i]) = OUTPUT_LINE_BYTES
         /\ RecAddr(DataRecords[i + 1]) = RecAddr(DataRecords[i]) + OUTPUT_LINE_BYTES

\* C6: in every data record that emit_flush has written, the byte count, the
\* two address bytes, the record type 0, the data bytes and the checksum
\* byte add up to 0 modulo 256.
C6_ChecksumZero ==
   \A i \in 1..Len(ofile) :
      ofile[i] # EofRecord =>
         /\ DataRecord(ofile[i])
         /\ SumSeq(RecBytes(ofile[i]), 1) % 256 = 0

\* a record of 32 bytes at an address above 255 has been written, with a
\* checksum byte that is not 0
C6_FullRecordHighAddress ==
   \E i \in 1..Len(ofile) :
      /\ ofile[i] # EofRecord
      /\ RecCount(ofile[i]) = OUTPUT_LINE_BYTES
      /\ RecAddr(ofile[i]) > 255
      /\ RecCheck(ofile[i]) # 0

(***************************************************************************)
(* Properties of expr                                                      *)
(***************************************************************************)
\* value, op, value, ..., value
Alternates(toks) ==
   /\ Len(toks) % 2 = 1
   /\ \A i \in 1..Len(toks) : toks[i].kind = (IF i % 2 = 1 THEN "value" ELSE "op")

\* v1 op1 v2 ... vn with n <= 8, the depth of the stacks
Flat(toks) == Alternates(toks) /\ Len(toks) <= 2 * ExprMax - 1

RECURSIVE LeftFold(_, _)
\* ((v1 op1 v2) op2 v3) ... up to the n-th value, modulo 2^32
LeftFold(toks, n) ==
   IF n = 1 THEN toks[1].val
   ELSE ApplyOp(toks[2 * n - 2].text[1], LeftFold(toks, n - 1), toks[2 * n - 1].val)

\* the left-to-right fold divides by 0 somewhere
LeftDivZero(toks) ==
   \E n \in 2..((Len(toks) + 1) \div 2) :
      /\ toks[2 * n - 2].text[1] \in {"/", "%"}
      /\ toks[2 * n - 1].val = 0

\* C7: an expression v1 op1 v2 ... vn of up to 8 values, where nothing is
\* divided by 0, is accepted and its value is the left-to-right fold
\* ((v1 op1 v2) op2 v3) ... modulo 2^32.
C7_LeftToRightFold ==
   (eres.done /\ Flat(etoks) /\ ~eres.dz /\ ~LeftDivZero(etoks)) =>
      (eres.p # 0 /\ eres.v = LeftFold(etoks, (Len(etoks) + 1) \div 2))

\* the tokens break the alternation: no token at all, a value after a value,
\* an operator after an operator or first or last, or a character without
\* its closing quote; or they are a well-formed expression after a "(" that
\* is never closed
BreaksAlternation(toks) ==
   \/ /\ \A i \in 1..Len(toks) : toks[i].kind \in {"value", "op", "bad"}
      /\ ~Alternates(toks)
   \/ /\ Len(toks) > 1
      /\ toks[1].kind = "open"
      /\ Alternates(Tail(toks))

\* C8: for an input that breaks the alternation, expr records "expr syntax"
\* and returns no position.
C8_BrokenAlternationRejected ==
   (eres.done /\ BreaksAlternation(etoks)) =>
      (eres.p = 0 /\ \E i \in 1..Len(eres.errs) : eres.errs[i] = "expr syntax")

(***************************************************************************)
(* Properties of the encoding of branches                                  *)
(***************************************************************************)
\* main has returned after the final pass
FinalPassDone == phase = "done" /\ ~another

\* the bytes given to emit, in order
EmittedBytes == [i \in 1..Len(emitted) |-> emitted[i].byte]

\* A: ADD R1, R1, 1  and  B: BNE R1, R0, A  in one source file
AddBne == << << LineAdd, LineBne >> >>

\* C9, as the specification states it: the ADD gives 4 bytes and the BNE at
\* pc 4 gives the bytes 21 10 FF FC.
C9_BneBytesAsStated ==
   (FinalPassDone /\ files = AddBne) =>
      /\ Len(emitted) = 8
      /\ SubSeq(EmittedBytes, 5, 8) = << 33, 16, 255, 252 >>

\* C9, as the code has it: r0 goes to bits 11..8 and r1 to bits 7..4 of the
\* base word 2001 of BNE, so the ADD gives the bytes 31 14 00 01 at the
\* addresses 0..3 and the BNE gives 21 01 FF FC at 4..7, with no error.
C9_BneBytes ==
   (FinalPassDone /\ files = AddBne) =>
      /\ errcount = 0
      /\ EmittedBytes = << 49, 20, 0, 1, 33, 1, 255, 252 >>
      /\ \A i \in 1..Len(emitted) : emitted[i].at = i - 1

\* the two lines have been assembled to the end of the final pass
C9_AddBneAssembled ==
   /\ FinalPassDone
   /\ files = AddBne
   /\ Len(emitted) = 8
   /\ Len(ofile) = 2

\* the line is BRA <t> for one of the targets
IsBra(s) == \E t \in BraTargets : s = BraLine(t)

\* the target of the line BRA <t>
BraTarget(s) == CHOOSE t \in BraTargets : s = BraLine(t)

RECURSIVE LinePc(_, _)
\* the program counter at the i-th line of the source file f of instructions:
\* NOP has 2 bytes and the other instructions have 4
LinePc(f, i) ==
   IF i = 1 THEN 0 ELSE LinePc(f, i - 1) + (IF f[i - 1] = LineNop THEN 2 ELSE 4)

\* the half-word offset of the BRA at the i-th line of f, for a target at an
\* even distance
BraOffset(f, i) == (BraTarget(f[i]) - (LinePc(f, i) + 4)) \div 2

\* "branch out of range" was recorded for line i
RangeError(i) ==
   \E k \in 1..Len(stderr) :
      stderr[k].lineno = i /\ stderr[k].msg = "branch out of range"

\* the byte given to emit for the address a is b
EmittedAt(a, b) == \E k \in 1..Len(emitted) : emitted[k].at = a /\ emitted[k].byte = b

\* the BRA lines of the source file whose target is at an even distance
ExactBras ==
   { i \in 1..Len(files[1]) :
        IsBra(files[1][i]) /\ (BraTarget(files[1][i]) - LinePc(files[1], i)) % 2 = 0 }

\* C10, as the specification states it: on the final pass an offset of
\* +32767 or -32767 is encoded without error, and an offset of +32768 or
\* -32768 records "branch out of range".
C10_LimitsAsStated ==
   FinalPassDone =>
      \A i \in ExactBras :
         LET off == BraOffset(files[1], i)
         IN /\ off \in {32767, -32767} => ~RangeError(i)
            /\ off \in {32768, -32768} => RangeError(i)

\* C10, as the code has it: on the final pass an offset from -32768 to
\* +32767 is encoded without error, as the two bytes of the base word 2FF0
\* and the two bytes of the offset, and an offset of +32768 or of -32769
\* records "branch out of range".
C10_BranchLimits ==
   FinalPassDone =>
      \A i \in ExactBras :
         LET off == BraOffset(files[1], i)
             at == LinePc(files[1], i)
         IN /\ off \in {32767, -32767, -32768} =>
                  /\ ~RangeError(i)
                  /\ EmittedAt(at, 47) /\ EmittedAt(at + 1, 240)
                  /\ EmittedAt(at + 2, (off \div 256) % 256)
                  /\ EmittedAt(at + 3, off % 256)
            /\ off \in {32768, -32769} => RangeError(i)
            /\ RangeError(i) <=> (off >= 32768 \/ off < -32768)

\* a final pass has encoded a BRA with the offset -32768 without error and
\* has recorded "branch out of range" for a BRA with the offset +32768
C10_BothLimitsReached ==
   /\ FinalPassDone
   /\ \E i \in ExactBras : BraOffset(files[1], i) = -32768 /\ ~RangeError(i)
   /\ \E i \in ExactBras : BraOffset(files[1], i) = 32768 /\ RangeError(i)


(***************************************************************************)
(* LI (src/eonasm.c, assemble, case 'I')                                   *)
(***************************************************************************)
\* byte number k of the 32 bits of n, 0 the lowest
ByteOf(n, k) == (n \div (256 ^ k)) % 256

\* the bytes of LI r, n, the four forms tried in this order
LiForm(r, n) ==
   IF n = 0 THEN << 128 + r, 255 >>
   ELSE IF n = 1 THEN << r, 248 >>
   ELSE IF n >= -32768 /\ n <= 32767 THEN << 48 + r, 249, ByteOf(n, 1), ByteOf(n, 0) >>
   ELSE << 15, 12 + 16 * r, ByteOf(n, 3), ByteOf(n, 2), ByteOf(n, 1), ByteOf(n, 0) >>

\* the register and the value of an LI line
LiOf(l) == CHOOSE c \in LiRegs \X LiValues : LiLine(c[1], c[2]) = l

RECURSIVE LiImage(_, _)
\* the bytes of the first k lines of a file of LI lines
LiImage(f, k) ==
   IF k = 0 THEN << >>
   ELSE LiImage(f, k - 1) \o LiForm(LiOf(f[k])[1].rno, LiOf(f[k])[2])

\* the source is one file of LI lines
LiSource == Len(files) = 1 /\ \A i \in DOMAIN files[1] : files[1][i] \in LiLines

\* C11: LI r, n gives the bytes 80|r FF for n = 0, r F8 for n = 1, 30|r F9 and
\* the 16 bits of n for other n in -32768..32767, and 0F 0C|(r<<4) and the 32
\* bits of n, high byte first, for the rest; the program counter moves on by
\* the bytes of the line, on every pass, and the final pass emits them
C11_LiForms ==
   (LiSource /\ phase = "lines") =>
      /\ errcount = 0
      /\ pc = Len(LiImage(files[1], lineno))
      /\ last => EmittedBytes = LiImage(files[1], lineno)

\* a 6-byte form and a 4-byte form have been emitted on the final pass
C11_LongAndWordFormEmitted ==
   /\ LiSource /\ phase = "lines" /\ last /\ lineno = 2
   /\ Len(LiForm(LiOf(files[1][1])[1].rno, LiOf(files[1][1])[2])) = 6
   /\ Len(LiForm(LiOf(files[1][2])[1].rno, LiOf(files[1][2])[2])) = 4
   /\ Len(emitted) = 10


(***************************************************************************)
(* Long label names (src/eonasm.c, add_label)                              *)
(***************************************************************************)
\* the line that assemble reads next
ThisLine == files[fileno][lineno + 1]

\* the line begins with a local label
LocalLabel(s) == At(s, 1) = "."

\* the name of the label a line begins with
LabelName(s) == ScanName(s, IF LocalLabel(s) THEN 2 ELSE 1, << >>).id

\* the step assembles a line that inserts a label of more than 22 characters
LongLabelInserted ==
   /\ phase = "lines" /\ lineno < Len(files[fileno]) /\ lineno' = lineno + 1
   /\ nlabel' = nlabel + 1 \/ lstack' = lstack - 1
   /\ Len(LabelName(ThisLine)) > MAX_CHAR_LABEL

\* the slot that the step gave to the new label
NewSlot == IF nlabel' # nlabel THEN nlabel ELSE lstack'

\* C12: a line that inserts a label of more than 22 characters (and holds no
\* reference to a label) stores length 22 and the first 22 characters in the new
\* slot and leaves every other slot of the table as it was, but for the lbegin
\* of the main label of a local label
C12_TruncationOnly ==
   [][LongLabelInserted =>
         /\ Slot(tlabel', NewSlot).len = MAX_CHAR_LABEL
         /\ Prefix(Slot(tlabel', NewSlot).name, MAX_CHAR_LABEL)
               = Prefix(LabelName(ThisLine), MAX_CHAR_LABEL)
         /\ \A i \in 0..(MAX_LABELS - 1) \ {NewSlot} :
               Slot(tlabel', i) =
                  [Slot(tlabel, i) EXCEPT
                     !.lbegin = IF LocalLabel(ThisLine) /\ i = mainlbl THEN lstack' ELSE @]
   ]_vars


(***************************************************************************)
(* The pending bytes (src/eonasm.c, emit and emit_flush)                   *)
(***************************************************************************)
\* the pending bytes are the last calls of emit, for the addresses from basepc on
PendingAreLastEmitted ==
   /\ pending <= Len(emitted)
   /\ \A i \in 0..(pending - 1) :
         emitted[Len(emitted) - pending + i + 1] = [at |-> basepc + i, byte |-> line[i]]

\* C13, as the specification states it: after any calls of emit and emit_flush,
\* outpc = basepc + pending, pending <= 32, and the pending bytes are the bytes
\* emitted for the addresses basepc .. outpc - 1
C13_PendingRangeAlways ==
   /\ outpc = basepc + pending
   /\ pending <= OUTPUT_LINE_BYTES
   /\ PendingAreLastEmitted

\* C13, as the code has it: the three hold after every call of emit; emit_flush
\* sets pending to 0 and leaves basepc and outpc as they were, so after
\* emit_done nothing is pending and outpc is still the address after the last
\* byte emitted
C13_PendingRange ==
   /\ pending <= OUTPUT_LINE_BYTES
   /\ PendingAreLastEmitted
   /\ phase = "emit" => outpc = basepc + pending
   /\ phase = "done" =>
         /\ pending = 0
         /\ emitted # << >> => outpc = emitted[Len(emitted)].at + 1

\* emit_done has flushed a full buffer of bytes emitted after a jump to the
\* address 1234
C13_FullBufferFlushed ==
   /\ phase = "done"
   /\ files = << >>
   /\ pending = 0
   /\ basepc = 4660
   /\ outpc = basepc + OUTPUT_LINE_BYTES


(***************************************************************************)
(* References to labels that are not in the table (src/eonasm.c, expr)     *)
(***************************************************************************)
\* no global label Y is in the table
UndefinedY ==
   find_label([tlabel |-> tlabel, nlabel |-> nlabel, lstack |-> lstack], NoLabel, << "Y" >>)
      = NoLabel

\* the step assembles  LI R1, Y  on a pass that is not the final one, with Y
\* not in the table
UndefinedReference ==
   /\ phase = "lines" /\ lineno < Len(files[fileno]) /\ lineno' = lineno + 1
   /\ ThisLine = LineLiY
   /\ ~last
   /\ UndefinedY

\* some line of the source files is l
HasLine(l) == \E f \in DOMAIN files : \E i \in DOMAIN files[f] : files[f][i] = l

\* C14, as the specification states it: a pass that is not the final one and
\* holds a reference to a label that is not in the table does not schedule the
\* final pass; so with a reference to Y and no line that defines Y, no pass is
\* the final one
C14_NeverSchedulesFinalPass ==
   (HasLine(LineLiY) /\ ~HasLine(LineLabelY)) => ~last

\* C14, as the code has it: the reference yields 0 (LI R1, 0 takes 2 bytes),
\* records no message, and leaves the flag more as it was
C14_UndefinedReferenceSilent ==
   [][UndefinedReference => (more' = more /\ stderr' = stderr /\ pc' = pc + 2)]_vars

\* pass 0 held a reference to Y, which no line defines, and scheduled the final
\* pass
C14_FinalPassScheduled ==
   /\ files = << << LineLiY >> >>
   /\ pass = 1 /\ last /\ phase = "lines" /\ lineno = 0
   /\ UndefinedY
   /\ errcount = 0


(***************************************************************************)
(* The flag more (src/eonasm.c, assemble, "register/find label")           *)
(***************************************************************************)
\* the last source file of the pass has been assembled
EndOfPass == phase = "files" /\ fileno > Len(files)

\* a label was inserted during the pass: the table has a slot that it did not
\* have at the end of the pass before
LabelInserted == DOMAIN tlabel # DOMAIN snap

\* a label without the flag LABEL_EQU has another value than at the end of the
\* pass before
LabelValueMoved ==
   \E i \in DOMAIN snap \cap DOMAIN tlabel :
      ~HasFlag(tlabel[i], LABEL_EQU) /\ tlabel[i].value # snap[i].value

\* the slot of the label that the line read next begins with, or NoLabel
Sighted ==
   IF isalpha(At(ThisLine, 1)) \/ At(ThisLine, 1) = "."
   THEN find_label([tlabel |-> tlabel, nlabel |-> nlabel, lstack |-> lstack],
                   IF LocalLabel(ThisLine) THEN mainlbl ELSE NoLabel, LabelName(ThisLine))
   ELSE NoLabel

\* the step assembles a line that begins with a label found in the table
Resighting ==
   /\ phase = "lines" /\ lineno < Len(files[fileno]) /\ lineno' = lineno + 1
   /\ Sighted # NoLabel

\* the step records the message msg
Records(msg) == \E k \in (Len(stderr) + 1)..Len(stderr') : stderr'[k].msg = msg

\* the line read next is an .EQU, which sets the value of its label
EquLine == ThisLine \in { LineEquPc, LineEquSelf }

\* C15: at the end of a pass more is true exactly when a label was inserted or
\* a label without the flag LABEL_EQU was moved during the pass.  A label found
\* on pass 0 records 'duplicated label' and changes nothing; on a later pass,
\* with the flag LABEL_EQU or at the program counter that is its value, it
\* changes nothing; otherwise its value becomes the program counter and more
\* is set
C15_MoreFlag ==
   /\ [](EndOfPass => (more <=> (LabelInserted \/ LabelValueMoved)))
   /\ [][Resighting =>
            IF pass = 0
            THEN /\ Records("duplicated label")
                 /\ more' = more
                 /\ EquLine \/ Slot(tlabel', Sighted) = Slot(tlabel, Sighted)
            ELSE IF HasFlag(Slot(tlabel, Sighted), LABEL_EQU)
                    \/ Slot(tlabel, Sighted).value = pc
            THEN /\ ~Records("duplicated label")
                 /\ more' = more
                 /\ EquLine \/ Slot(tlabel', Sighted) = Slot(tlabel, Sighted)
            ELSE /\ ~Records("duplicated label")
                 /\ more'
                 /\ Slot(tlabel', Sighted).value = pc
      ]_vars

\* a pass after pass 0 ends with more set and no label inserted: a label was
\* moved
C15_LabelMovedOnLaterPass ==
   /\ EndOfPass /\ pass >= 1 /\ ~last
   /\ more
   /\ ~LabelInserted
   /\ LabelValueMoved

(***************************************************************************)
(* The final pass (src/eonasm.c, main and assemble)                        *)
(***************************************************************************)
\* main is inside the final pass
FinalPass == last /\ another /\ phase \in {"files", "lines"}

\* the table has the slots and the values that it had at the end of the pass
\* before
TableAsBefore ==
   /\ DOMAIN tlabel = DOMAIN snap
   /\ \A i \in DOMAIN tlabel : tlabel[i].value = snap[i].value

\* the value of the global label Y, 0 when it is not in the table
ValueOfY ==
   Slot(tlabel, find_label([tlabel |-> tlabel, nlabel |-> nlabel, lstack |-> lstack],
                           NoLabel, << "Y" >>)).value

\* the first bytes of the output come from a line  .WORD Y : the line follows
\* an .EQU, which emits nothing
WordYFirst ==
   /\ Len(files[1]) >= 2
   /\ files[1][1] \in { LineEquSquare, LineEquSelf }
   /\ files[1][2] = LineWordY

\* C16: during the final pass no label is inserted and no value in the table
\* changes, more is still false when the final pass ends, and a reference to a
\* label is encoded with the value that the label has at the end of assembly
C16_FinalPassConsistent ==
   /\ FinalPass => TableAsBefore
   /\ (FinalPass /\ EndOfPass) => ~more
   /\ (FinalPassDone /\ errcount = 0 /\ WordYFirst) =>
         SubSeq(EmittedBytes, 1, 2) = << ByteOf(ValueOfY, 1), ByteOf(ValueOfY, 0) >>

\* the same without the values of the labels that have the flag LABEL_EQU
C16_NoLabelMoved ==
   (FinalPass /\ EndOfPass) => ~more

\* the reference alone
C16_ReferenceValue ==
   (FinalPassDone /\ errcount = 0 /\ WordYFirst) =>
      SubSeq(EmittedBytes, 1, 2) = << ByteOf(ValueOfY, 1), ByteOf(ValueOfY, 0) >>

(***************************************************************************)
(* Errors and the passes (src/eonasm.c, error and main)                    *)
(***************************************************************************)
\* the step goes on with the pass: the next line of the source file, the end
\* of the source file, the next source file, or the end of the pass after the
\* last source file
ContinuesPass ==
   \/ /\ phase = "lines" /\ lineno < Len(files[fileno])
      /\ phase' = "lines" /\ lineno' = lineno + 1 /\ fileno' = fileno
   \/ /\ phase = "lines" /\ lineno = Len(files[fileno])
      /\ phase' = "files" /\ fileno' = fileno + 1
   \/ /\ phase = "files" /\ fileno <= Len(files)
      /\ phase' = "lines" /\ lineno' = 0 /\ fileno' = fileno
   \/ /\ phase = "files" /\ fileno > Len(files)
      /\ phase' = "loop"

\* the end-of-file record is in the output file
EofWritten == \E k \in DOMAIN ofile : ofile[k] = EofRecord

\* every message was recorded on the final pass
ErrorsOnFinalPassOnly == \A k \in DOMAIN stderr : stderr[k].out

\* C17: with an error recorded, a pass goes on line by line and file by file to
\* its end, unless error () ends the process at the count MAX_ERRORS, and no
\* pass is begun after it; so bytes are emitted and the end-of-file record is
\* written only on the final pass and with no message recorded on a pass
\* before it, and nothing is emitted or written on pass 0
C17_ErrorsEndAssembly ==
   /\ [][(errcount > 0 /\ phase \in {"files", "lines"}) =>
            ContinuesPass \/ (phase' = "exit" /\ errcount' = MAX_ERRORS)]_vars
   /\ [][(errcount > 0 /\ phase = "loop") => (phase' = "done" /\ pass' = pass)]_vars
   /\ []((emitted # << >> \/ EofWritten) => (pass >= 1 /\ last /\ ErrorsOnFinalPassOnly))
   /\ [](pass = 0 => (emitted = << >> /\ ofile = << >>))

\* pass 0 recorded a message in the first of two source files, went on to the
\* end of the second, and main returned with no pass after it and no output
C17_RestOfPassProcessed ==
   /\ phase = "done" /\ pass = 1
   /\ Len(files) = 2 /\ fileno = 3 /\ lineno = Len(files[2])
   /\ errcount \in 1..(MAX_ERRORS - 1)
   /\ stderr[1].source = 1
   /\ emitted = << >> /\ ofile = << >>

====
